---- MODULE Spec2Model ----
(***************************************************************************)
(* Model of the scan-and-report pipeline of the educational antivirus:     *)
(* core/files.py, core/dupes.py, core/signatures.py, core/heuristics.py,   *)
(* core/report.py and core/scanner.py.                                     *)
(*                                                                         *)
(* Strings the code takes apart (file names, glob patterns) are sequences  *)
(* of one-character strings.  A content digest is the pair                 *)
(* <<"sha256", data>>: SHA-256 is taken to be collision free.              *)
(***************************************************************************)
EXTENDS Integers, Sequences, FiniteSets, TLC

\* ------------------------------------------------------------------------
\* Bounds of the model

MaxRoots == 1      \* longest list of scan roots handed to a scan
MaxPaths == 2      \* longest list of paths handed to find_duplicates directly
MaxEnv == 1        \* file-system changes made by other programs during a run
MaxClock == 0      \* last second the clock reaches
MaxFileLen == 3    \* longest file, in bytes, read block by block
MaxBlockSize == 3  \* largest block_size handed to the streaming reader
MaxFindings == 2   \* most findings of a report written on its own
MaxWrites == 2     \* most reports one ReportWriter is asked to write
MaxSeconds == 1    \* last second the clock reaches while a ReportWriter writes
MaxCalls == 3      \* most entries of the log of a Remediator
MaxMtime == 2      \* latest modification time, in seconds, of a file to remediate
MaxTurns == 1      \* most turns of a simulated World
max_viruses == 3   \* World.max_viruses of the simulated World

\* ------------------------------------------------------------------------
\* Generic helpers

Range(s) == {s[i] : i \in 1..Len(s)}

NoDuplicates(s) == \A i, j \in 1..Len(s) : i # j => s[i] # s[j]

IsPrefix(s, t) == Len(s) <= Len(t) /\ SubSeq(t, 1, Len(s)) = s

RECURSIVE Flatten(_)
Flatten(ss) == IF ss = <<>> THEN <<>> ELSE Head(ss) \o Flatten(Tail(ss))

RECURSIVE SeqSum(_)
SeqSum(s) == IF s = <<>> THEN 0 ELSE Head(s) + SeqSum(Tail(s))

SeqsUpTo(S, n) == UNION {[1..k -> S] : k \in 0..n}

\* ------------------------------------------------------------------------
\* Strings as character sequences

UpperChars == <<"A","B","C","D","E","F","G","H","I","J","K","L","M",
                "N","O","P","Q","R","S","T","U","V","W","X","Y","Z">>
LowerChars == <<"a","b","c","d","e","f","g","h","i","j","k","l","m",
                "n","o","p","q","r","s","t","u","v","w","x","y","z">>

\* str.lower()
LowerChar(c) ==
    IF \E i \in 1..26 : UpperChars[i] = c
    THEN LowerChars[CHOOSE i \in 1..26 : UpperChars[i] = c]
    ELSE c

Lower(s) == [i \in 1..Len(s) |-> LowerChar(s[i])]

\* str.endswith / str.startswith
EndsWith(s, suf) ==
    Len(suf) <= Len(s) /\ SubSeq(s, Len(s) - Len(suf) + 1, Len(s)) = suf

StartsWith(s, pre) == Len(pre) <= Len(s) /\ SubSeq(s, 1, Len(pre)) = pre

\* index of the last occurrence of c in s, 0 when there is none (rfind + 1)
LastIndexOf(s, c) ==
    IF \E i \in 1..Len(s) : s[i] = c
    THEN CHOOSE i \in 1..Len(s) : s[i] = c /\ \A j \in (i+1)..Len(s) : s[j] # c
    ELSE 0

\* os.path.basename / PurePath.name: what follows the last "/"
Basename(p) == SubSeq(p, LastIndexOf(p, "/") + 1, Len(p))

\* PurePath.suffix: from the last dot of the name, unless that dot is the
\* first or the last character
Suffix(p) ==
    LET name == Basename(p)
        i == LastIndexOf(name, ".")
    IN IF 1 < i /\ i < Len(name) THEN SubSeq(name, i, Len(name)) ELSE <<>>

\* fnmatch on one path component: "*" any run of characters, "?" one character
RECURSIVE GlobMatch(_, _)
GlobMatch(s, p) ==
    IF p = <<>> THEN s = <<>>
    ELSE IF Head(p) = "*"
         THEN GlobMatch(s, Tail(p)) \/ (s # <<>> /\ GlobMatch(Tail(s), p))
         ELSE /\ s # <<>>
              /\ (Head(p) = "?" \/ Head(p) = Head(s))
              /\ GlobMatch(Tail(s), Tail(p))

\* the components of a relative path
RECURSIVE Parts(_)
Parts(p) ==
    LET i == LastIndexOf(p, "/")
    IN IF i = 0 THEN (IF p = <<>> THEN <<>> ELSE <<p>>)
       ELSE Parts(SubSeq(p, 1, i - 1))
            \o (IF i = Len(p) THEN <<>> ELSE <<SubSeq(p, i + 1, Len(p))>>)

\* PurePath.match with a relative pattern: the pattern's components are
\* matched against the last components of the path
PathMatch(filename, pattern) ==
    LET fp == Parts(filename)
        pp == Parts(pattern)
    IN /\ Len(pp) <= Len(fp)
       /\ \A k \in 1..Len(pp) :
            GlobMatch(fp[Len(fp) - Len(pp) + k], pp[k])

\* ------------------------------------------------------------------------
\* The file system seen by the scanner: one scan directory holding Names

Dir == <<".">>

FileA == <<"a", ".", "t", "x", "t">>
FileSetup == <<"s", "e", "t", "u", "p", "1", ".", "b", "a", "t">>
FileExe == <<"p", ".", "E", "X", "E">>

Names == {FileA, FileExe, FileSetup}

\* order in which os.walk lists the directory
DirListing == <<FileA, FileExe, FileSetup>>

Contents == {"hello", "world", "big"}

\* the contents each file of the directory may hold when the program starts
InitialData ==
    [n \in Names |->
        CASE n = FileA -> {"hello", "world"}
          [] n = FileExe -> {"hello", "big"}
          [] n = FileSetup -> {"hello"}]

\* st_size of a file holding the content
Size(data) ==
    CASE data = "hello" -> 5
      [] data = "world" -> 5
      [] data = "big" -> 60 * 1024 * 1024

\* hashlib.sha256(...).hexdigest() of the whole content
Digest(data) == <<"sha256", data>>

\* path.stat(): fails with FileNotFoundError once the file is gone
StatFails(d, p) == d[p].state = "gone"

\* path.stat() fails with another OSError (NotADirectoryError when the
\* directory of the file was replaced, EIO on a failing device)
StatRaises(d, p) == d[p].state = "error"

StatSize(d, p) == Size(d[p].data)

\* path.open("rb") and reading: fails when the file is gone or unreadable
ReadFails(d, p) == d[p].state # "ok"

\* compute_sha256 on a file that can be read
compute_sha256(d, p) == Digest(d[p].data)

\* Path.exists() / Path.is_file()
IsFile(d, p) == p \in Names /\ d[p].state # "gone"

\* get_default_scan_paths(): the default directories that exist
DefaultScanPaths == <<Dir>>

\* what iter_files walks through, in order: a directory contributes its
\* listing, a file root itself; is_file() is asked when the entry is reached
RECURSIVE IterCandidates(_)
IterCandidates(roots) ==
    IF roots = <<>> THEN <<>>
    ELSE (IF Head(roots) = Dir THEN DirListing ELSE <<Head(roots)>>)
         \o IterCandidates(Tail(roots))

\* list(iter_files(paths)): the candidates that are files at that moment
RECURSIVE FilterFiles(_, _)
FilterFiles(d, cands) ==
    IF cands = <<>> THEN <<>>
    ELSE (IF IsFile(d, Head(cands)) THEN <<Head(cands)>> ELSE <<>>)
         \o FilterFiles(d, Tail(cands))

iter_files(d, roots) == FilterFiles(d, IterCandidates(roots))

\* "paths or get_default_scan_paths()"
PathsOrDefault(roots) == IF roots = <<>> THEN DefaultScanPaths ELSE roots

\* ------------------------------------------------------------------------
\* Signature store (core/signatures.py)

NoneStr == <<>>

Signature(id, descr, sha, pats) ==
    [identifier |-> id, description |-> descr, sha256 |-> sha,
     filename_patterns |-> pats]

PatSetupBat == <<"s", "e", "t", "u", "p", "*", ".", "b", "a", "t">>
PatUpdateBat == <<"u", "p", "d", "a", "t", "e", "*", ".", "b", "a", "t">>

\* the bundled digest has 63 hexadecimal digits: no hexdigest equals it
DemoDigest ==
    <<"hex63", "275a021bbfb64843d0d600f1a114aa2b2c1b1b5f0985f07f8b5b3b2010c56d4">>

default_signatures ==
    << Signature("demo-test-malware",
                 "Test signature that matches the EICAR demo hash",
                 DemoDigest, NoneStr),
       Signature("suspicious-batch-naming",
                 "Matches batch files with names resembling installers",
                 NoneStr, <<PatSetupBat, PatUpdateBat>>) >>

\* a signature the caller of the scanner has added to the store
SigHello ==
    Signature("custom-hello", "Exact digest of a known content",
              Digest("hello"), NoneStr)

\* the digest alone decides, the patterns are not looked at
SigMatchesDigestOnly(sig, sha, filename) ==
    sha # NoneStr /\ sig.sha256 # NoneStr /\ sha = sig.sha256

\* one signature against the criteria (the body of the loop of find_matches)
SigMatches(sig, sha, filename) ==
    \/ sha # NoneStr /\ sig.sha256 # NoneStr /\ sha = sig.sha256
    \/ /\ filename # NoneStr
       /\ sig.filename_patterns # NoneStr
       /\ \E k \in 1..Len(sig.filename_patterns) :
            PathMatch(filename, sig.filename_patterns[k])

RECURSIVE find_matches(_, _, _)
find_matches(store, sha, filename) ==
    IF store = <<>> THEN <<>>
    ELSE (IF SigMatches(Head(store), sha, filename) THEN <<Head(store)>> ELSE <<>>)
         \o find_matches(Tail(store), sha, filename)

\* the signature appended whatever the store holds: a list, not a dictionary
AddSignatureAppend(store, sig) == Append(store, sig)

\* self._signatures[signature.identifier] = signature on an ordered dict
add_signature(store, sig) ==
    IF \E i \in 1..Len(store) : store[i].identifier = sig.identifier
    THEN [i \in 1..Len(store) |->
            IF store[i].identifier = sig.identifier THEN sig ELSE store[i]]
    ELSE Append(store, sig)

Identifiers(rs) == [i \in 1..Len(rs) |-> rs[i].identifier]

\* ------------------------------------------------------------------------
\* Heuristics (core/heuristics.py)

HeuristicResult(id, sev) == [identifier |-> id, severity |-> sev]

SUSPICIOUS_EXTENSIONS ==
    { <<".", "e", "x", "e">>, <<".", "d", "l", "l">>, <<".", "b", "a", "t">>,
      <<".", "s", "c", "r">>, <<".", "j", "s">>, <<".", "v", "b", "s">> }

LARGE_FILE_THRESHOLD == 50 * 1024 * 1024

\* the size test with "greater or equal"
AnalyseFileAtLeast(path, statFails, size) ==
    LET extension == Lower(Suffix(path))
    IN (IF extension \in SUSPICIOUS_EXTENSIONS
        THEN <<HeuristicResult("suspicious-extension", "medium")>> ELSE <<>>)
       \o
       (IF /\ ~statFails
           /\ size >= LARGE_FILE_THRESHOLD
           /\ extension \in {<<".", "e", "x", "e">>, <<".", "d", "l", "l">>}
        THEN <<HeuristicResult("large-binary", "low")>> ELSE <<>>)

\* statFails: path.stat() raised FileNotFoundError or PermissionError
analyse_file(path, statFails, size) ==
    LET extension == Lower(Suffix(path))
    IN (IF extension \in SUSPICIOUS_EXTENSIONS
        THEN <<HeuristicResult("suspicious-extension", "medium")>> ELSE <<>>)
       \o
       (IF /\ ~statFails
           /\ size > LARGE_FILE_THRESHOLD
           /\ extension \in {<<".", "e", "x", "e">>, <<".", "d", "l", "l">>}
        THEN <<HeuristicResult("large-binary", "low")>> ELSE <<>>)

\* the three tests chained with elif: the first that holds is the only flag
AnalyseProcessFirstOnly(info) ==
    LET name == Lower(info.name)
        path == Lower(info.exe)
    IN IF EndsWith(name, <<".", "t", "m", "p">>)
       THEN <<HeuristicResult("temp-process", "high")>>
       ELSE IF info.startup
       THEN <<HeuristicResult("auto-start", "medium")>>
       ELSE IF path # <<>> /\ StartsWith(Basename(path), <<"~", "$">>)
       THEN <<HeuristicResult("tilde-prefixed", "medium")>>
       ELSE <<>>

analyse_process(info) ==
    LET name == Lower(info.name)
        path == Lower(info.exe)
    IN (IF EndsWith(name, <<".", "t", "m", "p">>)
        THEN <<HeuristicResult("temp-process", "high")>> ELSE <<>>)
       \o
       (IF info.startup
        THEN <<HeuristicResult("auto-start", "medium")>> ELSE <<>>)
       \o
       (IF path # <<>> /\ StartsWith(Basename(path), <<"~", "$">>)
        THEN <<HeuristicResult("tilde-prefixed", "medium")>> ELSE <<>>)

\* ------------------------------------------------------------------------
\* Processes and GPU processes handed to the scanner by the operating system

ProcessInfo(pid, name, exe, startup) ==
    [pid |-> pid, name |-> name, exe |-> exe, startup |-> startup]

ProcShell == ProcessInfo(1, <<"s", "h">>, <<"/", "b", "/", "s", "h">>, FALSE)
ProcTmp == ProcessInfo(2, <<"x", ".", "T", "M", "P">>, <<>>, FALSE)
ProcSetup == ProcessInfo(3, FileSetup, <<>>, FALSE)
ProcAuto ==
    ProcessInfo(4, <<"u", "p", "d", "a", "t", "e", ".", "b", "a", "t">>,
                <<"/", "b", "/", "~", "$", "u">>, TRUE)

\* list(iter_processes()): the process tables the scanner may be handed
ProcessTables == {<<>>, <<ProcShell, ProcTmp>>, <<ProcSetup, ProcAuto>>}

GPUProcessInfo(pid, name, mem) == [pid |-> pid, name |-> name, gpu_memory_mb |-> mem]

GpuPython == GPUProcessInfo(7, <<"p", "y">>, <<10>>)
GpuSetup == GPUProcessInfo(8, FileSetup, <<>>)

\* GPUInspector.inspect(): the empty list when nvidia-smi is absent or fails
\* with FileNotFoundError or CalledProcessError, else the processes it prints;
\* "unexecutable" is subprocess.check_output raising another OSError (exec
\* format error, permission denied), which inspect() does not catch
GpuOutcomes ==
    {[tool |-> "absent", procs |-> <<>>], [tool |-> "failed", procs |-> <<>>]}
    \cup {[tool |-> "unexecutable", procs |-> <<>>]}
    \cup {[tool |-> "ok", procs |-> <<>>],
          [tool |-> "ok", procs |-> <<GpuPython, GpuSetup>>]}

\* ------------------------------------------------------------------------
\* Reports (core/report.py)

None == <<>>
EmptyDict == <<>>

ScanReport(name, t) ==
    [name |-> name, started_at |-> t, finished_at |-> None,
     summary |-> EmptyDict, findings |-> <<>>, limitations |-> <<>>]

ReportItem(title, details, risk, recs) ==
    [title |-> title, details |-> details, risk |-> risk, recommendations |-> recs]

\* the risk taken from the severity of the heuristics as well
RiskBySeverity(matches, heuristics_results) ==
    IF \/ matches # <<>>
       \/ \E k \in 1..Len(heuristics_results) : heuristics_results[k].severity = "high"
    THEN "high" ELSE "medium"

\* risk="high" if matches else "medium"
RiskOf(matches, heuristics_results) ==
    IF matches # <<>> THEN "high" ELSE "medium"

\* the test with "and" in place of "or"
IsSuspiciousBoth(matches, heuristics_results) ==
    matches # <<>> /\ heuristics_results # <<>>

\* "if matches or heuristics_results"
IsSuspicious(matches, heuristics_results) ==
    matches # <<>> \/ heuristics_results # <<>>

FileFinding(path, hash_value, matches, heur) ==
    ReportItem(<<"Archivo sospechoso", Basename(path)>>,
               [ruta |-> path, hash_sha256 |-> hash_value,
                firmas |-> Identifiers(matches), heuristicas |-> Identifiers(heur)],
               RiskOf(matches, heur),
               <<"Enviar a cuarentena", "Eliminar solo tras verificacion manual">>)

ProcessFinding(process, matches, heur) ==
    ReportItem(<<"Proceso sospechoso", process.name>>,
               [pid |-> process.pid, exe |-> process.exe,
                firmas |-> Identifiers(matches), heuristicas |-> Identifiers(heur)],
               RiskOf(matches, heur),
               <<"Revisar manualmente", "Finalizar proceso si se confirma malicioso">>)

GpuFinding(proc, matches) ==
    ReportItem(<<"Proceso GPU sospechoso", proc.name>>,
               [pid |-> proc.pid, memoria_gpu_mb |-> proc.gpu_memory_mb,
                firmas |-> Identifiers(matches)],
               "high",
               <<"Verificar origen del proceso", "Finalizar solo tras confirmacion">>)

DuplicateFinding(digest, items, size) ==
    ReportItem(<<"Duplicados hash", digest>>,
               [archivos |-> items, tamano |-> size],
               "low",
               <<"Considerar eliminar duplicados tras revision">>)

HashLimitation(path) == <<"No se pudo leer", path>>

GpuLimitation == <<"No se encontraron procesos GPU o la funcion no esta disponible">>

\* ------------------------------------------------------------------------
\* Insertion-ordered dictionaries of lists (dict.setdefault(k, []).append(v))

HasKey(d, k) == \E i \in 1..Len(d) : d[i].key = k

\* the list of the key replaced by the new path: size_map[size] = [path]
DictOverwrite(d, k, v) ==
    IF HasKey(d, k)
    THEN [i \in 1..Len(d) |->
            IF d[i].key = k THEN [d[i] EXCEPT !.items = <<v>>] ELSE d[i]]
    ELSE Append(d, [key |-> k, items |-> <<v>>])

DictAppend(d, k, v) ==
    IF HasKey(d, k)
    THEN [i \in 1..Len(d) |->
            IF d[i].key = k THEN [d[i] EXCEPT !.items = Append(@, v)] ELSE d[i]]
    ELSE Append(d, [key |-> k, items |-> <<v>>])

RECURSIVE SelectLonger(_, _)
SelectLonger(d, n) ==
    IF d = <<>> THEN <<>>
    ELSE (IF Len(Head(d).items) > n THEN <<Head(d)>> ELSE <<>>)
         \o SelectLonger(Tail(d), n)

\* find_duplicates: groups of fewer than two candidates are not hashed
MinCandidates == 2

\* the candidates of every group hashed from the last to the first
HashWorklistBackwards(size_map) ==
    Flatten([i \in 1..Len(size_map) |->
               IF Len(size_map[i].items) < MinCandidates THEN <<>>
               ELSE [k \in 1..Len(size_map[i].items) |->
                       size_map[i].items[Len(size_map[i].items) + 1 - k]]])

\* find_duplicates: the paths hashed, group after group
HashWorklist(size_map) ==
    Flatten([i \in 1..Len(size_map) |->
               IF Len(size_map[i].items) < MinCandidates THEN <<>> ELSE size_map[i].items])

\* the filter with its threshold off by one: "if len(items) > 0"
DuplicateGroupsKeepSingles(buckets) == SelectLonger(buckets, 0)

\* find_duplicates: "if len(items) > 1" of the returned dictionary
DuplicateGroups(buckets) == SelectLonger(buckets, 1)

\* ------------------------------------------------------------------------
\* State

VARIABLES
    disk,          \* Names -> [state: "ok" | "noread" | "gone" | "error", data]
    envCount,      \* file-system changes made so far by other programs
    clock,         \* last value datetime.utcnow() returned, in seconds
    sigs,          \* SignatureDatabase._signatures, in insertion order
    write_json,    \* AntivirusScanner._write_json
    call,          \* last call of a library function made outside a scan
    op,            \* operation running or just ended, "none" in between
    pc,            \* position inside the operation
    heap,          \* the ScanReport objects created by the operation
    cur,           \* index in heap of the report of the method running
    sub_reports,   \* full_scan: indexes of the sub-reports returned so far
    queue,         \* what the running loop still has to iterate over
    scanned,       \* scan_files: scanned; otherwise len() of the input list
    item,          \* scan_files: path, hash_value and matches of the file
    fd,            \* locals of find_duplicates
    total_space,   \* scan_duplicates: total_space
    written,       \* files written by ReportWriter.write in this operation
    result,        \* index in heap of the report returned to the caller, or 0
    failures,      \* history: per-item failures met, with the report they hit
    trace,         \* history: calls, finalizations, writes and returns
    files,         \* the files a Remediator works on: path -> [content, mtime]
    dry_run,       \* Remediator.dry_run
    log,           \* Remediator.log
    world_processes, \* World.processes: which of them are compromised
    viruses,       \* World.viruses
    pending_viruses, \* World._pending_viruses
    clone_counter, \* World._clone_counter
    turn,          \* World.turn
    phase,         \* World.step: "idle" between calls, else the loop it is in
    idx,           \* World.step: position in the list the loop goes through
    todo,          \* World.step: length of list(self.viruses)
    turn_events,   \* World.step: turn_events
    event_log      \* World._event_log

envVars == <<disk, envCount>>
scanVars == <<heap, cur, sub_reports, queue, scanned, item, fd, total_space,
              written, result, failures, trace>>
remVars == <<files, dry_run, log>>
simVars == <<world_processes, viruses, pending_viruses, clone_counter, turn, phase, idx, todo,
             turn_events, event_log>>
vars == <<disk, envCount, clock, sigs, write_json, call, op, pc, heap, cur, sub_reports,
          queue, scanned, item, fd, total_space, written, result, failures, trace,
          files, dry_run, log, world_processes, viruses, pending_viruses, clone_counter,
          turn, phase, idx, todo, turn_events, event_log>>

NoItem == [path |-> <<>>, hash_value |-> None, matches |-> <<>>]

\* paths: the argument; skipped (history): the paths left out after a failure
NoFd == [paths |-> <<>>, size_map |-> <<>>, buckets |-> <<>>, result |-> <<>>,
         returned |-> FALSE, skipped |-> <<>>]

\* a call of a library function: its name, its arguments, and whether it
\* raised or what it returned
Call(fn, args, raised, value) ==
    [fn |-> fn, args |-> args, out |-> [raised |-> raised, value |-> value]]

NoCall == Call("none", <<>>, FALSE, <<>>)

\* values datetime.utcnow() may return next
Now == {clock} \cup (IF clock < MaxClock THEN {clock + 1} ELSE {})

Event(kind, rid) == [kind |-> kind, rid |-> rid]

InitScanner ==
    /\ disk \in [Names -> [state : {"ok"}, data : Contents]]
    /\ \A n \in Names : disk[n].data \in InitialData[n]
    /\ envCount = 0
    /\ clock = 0
    /\ sigs = add_signature(default_signatures, SigHello)
    /\ write_json = TRUE
    /\ call = NoCall
    /\ op = "none"
    /\ pc = "idle"
    /\ heap = <<>>
    /\ cur = 0
    /\ sub_reports = <<>>
    /\ queue = <<>>
    /\ scanned = 0
    /\ item = NoItem
    /\ fd = NoFd
    /\ total_space = 0
    /\ written = <<>>
    /\ result = 0
    /\ failures = <<>>
    /\ trace = <<>>

\* no Remediator at work
IdleRemediator ==
    /\ files = <<>>
    /\ dry_run = FALSE
    /\ log = <<>>

\* no simulation running
IdleWorld ==
    /\ world_processes = <<>>
    /\ viruses = <<>>
    /\ pending_viruses = <<>>
    /\ clone_counter = 0
    /\ turn = 0
    /\ phase = "idle"
    /\ idx = 0
    /\ todo = 0
    /\ turn_events = <<>>
    /\ event_log = <<>>

\* the scanner alone
Init == InitScanner /\ IdleRemediator /\ IdleWorld

\* ------------------------------------------------------------------------
\* Other programs: a file is removed, or made unreadable

\* any time before the operation has ended
EnvMayAct == pc \notin {"aborted", "done"}

Vanish(p) ==
    /\ EnvMayAct
    /\ envCount < MaxEnv
    /\ disk[p].state # "gone"
    /\ disk' = [disk EXCEPT ![p].state = "gone"]
    /\ envCount' = envCount + 1
    /\ UNCHANGED <<clock, sigs, write_json, call, remVars, simVars, op, pc, scanVars>>

Revoke(p) ==
    /\ EnvMayAct
    /\ envCount < MaxEnv
    /\ disk[p].state = "ok"
    /\ disk' = [disk EXCEPT ![p].state = "noread"]
    /\ envCount' = envCount + 1
    /\ UNCHANGED <<clock, sigs, write_json, call, remVars, simVars, op, pc, scanVars>>

\* the file stops being reachable (its directory is replaced, its device
\* fails) right before analyse_file reads its metadata; at any other moment
\* the scanner meets this as it meets a file that is gone
Detach(p) ==
    /\ pc = "sf_analyse"
    /\ item.path = p
    /\ envCount < MaxEnv
    /\ disk[p].state \in {"ok", "noread"}
    /\ disk' = [disk EXCEPT ![p].state = "error"]
    /\ envCount' = envCount + 1
    /\ UNCHANGED <<clock, sigs, write_json, call, remVars, simVars, op, pc, scanVars>>

\* ------------------------------------------------------------------------
\* Entry of the scan methods, called from outside or by full_scan

NewReport(name, t) ==
    /\ clock' = t
    /\ heap' = Append(heap, ScanReport(name, t))
    /\ cur' = Len(heap) + 1
    /\ trace' = Append(trace, Event("create", Len(heap) + 1))
    /\ item' = NoItem
    /\ fd' = NoFd
    /\ total_space' = 0

EnterScanFiles(roots) ==
    /\ \E t \in Now : NewReport("escaneo_archivos", t)
    /\ queue' = IterCandidates(PathsOrDefault(roots))
    /\ scanned' = 0
    /\ pc' = "sf_loop"

EnterScanProcesses(processes) ==
    /\ \E t \in Now : NewReport("escaneo_procesos", t)
    /\ queue' = processes
    /\ scanned' = Len(processes)
    /\ pc' = "sp_loop"

\* report creation and GPUInspector().inspect(); an empty list adds the note,
\* an exception of inspect() ends the operation
EnterScanGpu(outcome) ==
    /\ \E t \in Now :
         /\ clock' = t
         /\ heap' = Append(heap,
                [ScanReport("escaneo_gpu", t) EXCEPT
                    !.limitations = IF outcome.procs = <<>> /\ outcome.tool # "unexecutable"
                                    THEN <<GpuLimitation>> ELSE <<>>])
    /\ cur' = Len(heap) + 1
    /\ trace' = Append(trace, Event("create", Len(heap) + 1))
    /\ item' = NoItem
    /\ fd' = NoFd
    /\ total_space' = 0
    /\ queue' = outcome.procs
    /\ scanned' = Len(outcome.procs)
    /\ pc' = IF outcome.tool = "unexecutable" THEN "aborted" ELSE "sg_loop"

\* report creation, list(iter_files(...)) and the call of find_duplicates
EnterScanDuplicates(roots) ==
    /\ \E t \in Now :
         /\ clock' = t
         /\ heap' = Append(heap, ScanReport("busqueda_duplicados", t))
    /\ cur' = Len(heap) + 1
    /\ trace' = Append(trace, Event("create", Len(heap) + 1))
    /\ item' = NoItem
    /\ total_space' = 0
    /\ LET all_files == iter_files(disk, PathsOrDefault(roots))
       IN /\ fd' = [NoFd EXCEPT !.paths = all_files]
          /\ queue' = all_files
    /\ scanned' = 0
    /\ pc' = "fd_stat"

ScanRoots == SeqsUpTo(Names \cup {Dir}, MaxRoots)

StartCommon(o) ==
    /\ pc = "idle"
    /\ op' = o
    /\ UNCHANGED <<envVars, sigs, write_json, call, remVars, simVars, sub_reports, written, result, failures>>

scan_files(roots) ==
    /\ StartCommon("scan_files")
    /\ EnterScanFiles(roots)

scan_processes(processes) ==
    /\ StartCommon("scan_processes")
    /\ EnterScanProcesses(processes)

scan_gpu_processes(outcome) ==
    /\ StartCommon("scan_gpu_processes")
    /\ EnterScanGpu(outcome)

scan_duplicates(roots) ==
    /\ StartCommon("scan_duplicates")
    /\ EnterScanDuplicates(roots)

\* find_duplicates called on its own, as the tests do
find_duplicates(paths) ==
    /\ StartCommon("find_duplicates")
    /\ heap' = <<>>
    /\ cur' = 0
    /\ trace' = <<>>
    /\ item' = NoItem
    /\ total_space' = 0
    /\ fd' = [NoFd EXCEPT !.paths = paths]
    /\ queue' = paths
    /\ scanned' = 0
    /\ pc' = "fd_stat"
    /\ UNCHANGED clock

\* full_scan: the umbrella report is created first
full_scan ==
    /\ StartCommon("full_scan")
    /\ \E t \in Now :
         /\ clock' = t
         /\ heap' = <<ScanReport("escaneo_completo", t)>>
    /\ cur' = 1
    /\ trace' = <<Event("create", 1)>>
    /\ item' = NoItem
    /\ fd' = NoFd
    /\ total_space' = 0
    /\ queue' = <<>>
    /\ scanned' = 0
    /\ pc' = "full_call"

\* the calls in another order: processes before files
SubScanOrderSwapped ==
    <<"scan_processes", "scan_files", "scan_gpu_processes", "scan_duplicates">>

\* the order of the calls in the sub_reports list of full_scan
SubScanOrder ==
    <<"scan_files", "scan_processes", "scan_gpu_processes", "scan_duplicates">>

\* full_scan calls its next sub-scan, without arguments
CallSubScan ==
    /\ pc = "full_call"
    /\ Len(sub_reports) < Len(SubScanOrder)
    /\ LET callee == SubScanOrder[Len(sub_reports) + 1]
       IN CASE callee = "scan_files" -> EnterScanFiles(<<>>)
            [] callee = "scan_processes" ->
                 \E processes \in ProcessTables :
                    EnterScanProcesses(processes)
            [] callee = "scan_gpu_processes" ->
                 \E outcome \in GpuOutcomes : EnterScanGpu(outcome)
            [] callee = "scan_duplicates" -> EnterScanDuplicates(<<>>)
    /\ UNCHANGED <<envVars, sigs, write_json, call, remVars, simVars, op, sub_reports, written, result,
                   failures>>

\* ------------------------------------------------------------------------
\* ScanReport.add_finding / add_limitation

add_finding(report, it) == [report EXCEPT !.findings = Append(@, it)]

add_limitation(report, message) == [report EXCEPT !.limitations = Append(@, message)]

Failure(rid, path, kind) == [rid |-> rid, path |-> path, kind |-> kind]

\* ------------------------------------------------------------------------
\* scan_files: the loop over iter_files

\* the generator passes over an entry that is not a file (any more)
FileSkip ==
    /\ pc = "sf_loop"
    /\ queue # <<>>
    /\ ~IsFile(disk, Head(queue))
    /\ queue' = Tail(queue)
    /\ UNCHANGED <<envVars, clock, sigs, write_json, call, remVars, simVars, op, pc, heap, cur, sub_reports,
                   scanned, item, fd, total_space, written, result, failures, trace>>

\* the except branch without its add_limitation
OnHashErrorSilent(report, path) == report

\* the except branch: what the report becomes when hashing path failed
OnHashError(report, path) == add_limitation(report, HashLimitation(path))

\* compute_sha256 raises: limitation, continue
FileHashError ==
    /\ pc = "sf_loop"
    /\ queue # <<>>
    /\ IsFile(disk, Head(queue))
    /\ ReadFails(disk, Head(queue))
    /\ scanned' = scanned + 1
    /\ heap' = [heap EXCEPT ![cur] = OnHashError(@, Head(queue))]
    /\ failures' = Append(failures, Failure(cur, Head(queue), "hash"))
    /\ queue' = Tail(queue)
    /\ UNCHANGED <<envVars, clock, sigs, write_json, call, remVars, simVars, op, pc, cur, sub_reports,
                   item, fd, total_space, written, result, trace>>

\* compute_sha256 and find_matches succeed
FileHashed ==
    /\ pc = "sf_loop"
    /\ queue # <<>>
    /\ IsFile(disk, Head(queue))
    /\ ~ReadFails(disk, Head(queue))
    /\ scanned' = scanned + 1
    /\ LET path == Head(queue)
           hash_value == compute_sha256(disk, path)
       IN item' = [path |-> path, hash_value |-> hash_value,
                   matches |-> find_matches(sigs, hash_value, Basename(path))]
    /\ queue' = Tail(queue)
    /\ pc' = "sf_analyse"
    /\ UNCHANGED <<envVars, clock, sigs, write_json, call, remVars, simVars, op, heap, cur, sub_reports,
                   fd, total_space, written, result, failures, trace>>

\* heuristics.analyse_file and the finding
FileAnalyse ==
    /\ pc = "sf_analyse"
    /\ ~StatRaises(disk, item.path)
    /\ LET path == item.path
           heuristics_results ==
               analyse_file(path, StatFails(disk, path), StatSize(disk, path))
       IN heap' = IF IsSuspicious(item.matches, heuristics_results)
                  THEN [heap EXCEPT ![cur] =
                          add_finding(@, FileFinding(path, item.hash_value,
                                                     item.matches, heuristics_results))]
                  ELSE heap
    /\ failures' = IF StatFails(disk, item.path)
                   THEN Append(failures, Failure(cur, item.path, "stat"))
                   ELSE failures
    /\ pc' = "sf_loop"
    /\ UNCHANGED <<envVars, clock, sigs, write_json, call, remVars, simVars, op, cur, sub_reports, queue,
                   scanned, item, fd, total_space, written, result, trace>>

\* path.stat() in analyse_file raises an OSError that is neither
\* FileNotFoundError nor PermissionError: analyse_file does not catch it and
\* its call in scan_files is outside the try, the operation ends there
FileAnalyseError ==
    /\ pc = "sf_analyse"
    /\ StatRaises(disk, item.path)
    /\ failures' = Append(failures, Failure(cur, item.path, "stat"))
    /\ pc' = "aborted"
    /\ UNCHANGED <<envVars, clock, sigs, write_json, call, remVars, simVars, op, heap, cur, sub_reports,
                   queue, scanned, item, fd, total_space, written, result, trace>>

FilesDone ==
    /\ pc = "sf_loop"
    /\ queue = <<>>
    /\ pc' = "summary"
    /\ UNCHANGED <<envVars, clock, sigs, write_json, call, remVars, simVars, op, scanVars>>

\* ------------------------------------------------------------------------
\* scan_processes and scan_gpu_processes: one turn of the loop

ProcessStep ==
    /\ pc = "sp_loop"
    /\ queue # <<>>
    /\ LET process == Head(queue)
           matches == find_matches(sigs, NoneStr, process.name)
           heuristics_results == analyse_process(process)
       IN heap' = IF IsSuspicious(matches, heuristics_results)
                  THEN [heap EXCEPT ![cur] =
                          add_finding(@, ProcessFinding(process, matches,
                                                        heuristics_results))]
                  ELSE heap
    /\ queue' = Tail(queue)
    /\ UNCHANGED <<envVars, clock, sigs, write_json, call, remVars, simVars, op, pc, cur, sub_reports,
                   scanned, item, fd, total_space, written, result, failures, trace>>

ProcessesDone ==
    /\ pc = "sp_loop"
    /\ queue = <<>>
    /\ pc' = "summary"
    /\ UNCHANGED <<envVars, clock, sigs, write_json, call, remVars, simVars, op, scanVars>>

GpuStep ==
    /\ pc = "sg_loop"
    /\ queue # <<>>
    /\ LET proc == Head(queue)
           matches == find_matches(sigs, NoneStr, proc.name)
       IN heap' = IF matches # <<>>
                  THEN [heap EXCEPT ![cur] = add_finding(@, GpuFinding(proc, matches))]
                  ELSE heap
    /\ queue' = Tail(queue)
    /\ UNCHANGED <<envVars, clock, sigs, write_json, call, remVars, simVars, op, pc, cur, sub_reports,
                   scanned, item, fd, total_space, written, result, failures, trace>>

GpuDone ==
    /\ pc = "sg_loop"
    /\ queue = <<>>
    /\ pc' = "summary"
    /\ UNCHANGED <<envVars, clock, sigs, write_json, call, remVars, simVars, op, scanVars>>

\* ------------------------------------------------------------------------
\* group_paths_by_size and find_duplicates

\* path.stat() raises: the path is left out
SizeStatError ==
    /\ pc = "fd_stat"
    /\ queue # <<>>
    /\ ~IsFile(disk, Head(queue))
    /\ failures' = Append(failures, Failure(cur, Head(queue), "stat"))
    /\ fd' = [fd EXCEPT !.skipped = Append(@, Head(queue))]
    /\ queue' = Tail(queue)
    /\ UNCHANGED <<envVars, clock, sigs, write_json, call, remVars, simVars, op, pc, heap, cur, sub_reports,
                   scanned, item, total_space, written, result, trace>>

SizeStat ==
    /\ pc = "fd_stat"
    /\ queue # <<>>
    /\ IsFile(disk, Head(queue))
    /\ fd' = [fd EXCEPT !.size_map =
                DictAppend(@, StatSize(disk, Head(queue)), Head(queue))]
    /\ queue' = Tail(queue)
    /\ UNCHANGED <<envVars, clock, sigs, write_json, call, remVars, simVars, op, pc, heap, cur, sub_reports,
                   scanned, item, total_space, written, result, failures, trace>>

\* group_paths_by_size returns; the hashing loops start
SizeGroupsDone ==
    /\ pc = "fd_stat"
    /\ queue = <<>>
    /\ queue' = HashWorklist(fd.size_map)
    /\ pc' = "fd_hash"
    /\ UNCHANGED <<envVars, clock, sigs, write_json, call, remVars, simVars, op, heap, cur, sub_reports,
                   scanned, item, fd, total_space, written, result, failures, trace>>

\* the path that could not be hashed is put into a bucket all the same
DupHashErrorKeepsPath ==
    /\ pc = "fd_hash"
    /\ queue # <<>>
    /\ ReadFails(disk, Head(queue))
    /\ failures' = Append(failures, Failure(cur, Head(queue), "hash"))
    /\ fd' = [fd EXCEPT !.skipped = Append(@, Head(queue)),
                        !.buckets = DictAppend(@, Digest(disk[Head(queue)].data),
                                               Head(queue))]
    /\ queue' = Tail(queue)
    /\ UNCHANGED <<envVars, clock, sigs, write_json, call, remVars, simVars, op, pc, heap, cur, sub_reports,
                   scanned, item, total_space, written, result, trace>>

\* compute_sha256 raises: logged, continue
DupHashError ==
    /\ pc = "fd_hash"
    /\ queue # <<>>
    /\ ReadFails(disk, Head(queue))
    /\ failures' = Append(failures, Failure(cur, Head(queue), "hash"))
    /\ fd' = [fd EXCEPT !.skipped = Append(@, Head(queue))]
    /\ queue' = Tail(queue)
    /\ UNCHANGED <<envVars, clock, sigs, write_json, call, remVars, simVars, op, pc, heap, cur, sub_reports,
                   scanned, item, total_space, written, result, trace>>

DupHash ==
    /\ pc = "fd_hash"
    /\ queue # <<>>
    /\ ~ReadFails(disk, Head(queue))
    /\ fd' = [fd EXCEPT !.buckets =
                DictAppend(@, compute_sha256(disk, Head(queue)), Head(queue))]
    /\ queue' = Tail(queue)
    /\ UNCHANGED <<envVars, clock, sigs, write_json, call, remVars, simVars, op, pc, heap, cur, sub_reports,
                   scanned, item, total_space, written, result, failures, trace>>

\* the return statement of find_duplicates
DupReturn ==
    /\ pc = "fd_hash"
    /\ queue = <<>>
    /\ fd' = [fd EXCEPT !.result = DuplicateGroups(fd.buckets), !.returned = TRUE]
    /\ IF op = "find_duplicates"
       THEN pc' = "done" /\ queue' = <<>>
       ELSE pc' = "sd_loop" /\ queue' = DuplicateGroups(fd.buckets)
    /\ UNCHANGED <<envVars, clock, sigs, write_json, call, remVars, simVars, op, heap, cur, sub_reports,
                   scanned, item, total_space, written, result, failures, trace>>

\* ------------------------------------------------------------------------
\* scan_duplicates: the loop over the groups

\* every copy counted, the one that is kept included
ReclaimableWholeGroup(size, items) == size * Len(items)

\* size * (len(items) - 1)
Reclaimable(size, items) == size * (Len(items) - 1)

DupFinding ==
    /\ pc = "sd_loop"
    /\ queue # <<>>
    /\ ~StatFails(disk, Head(queue).items[1])
    /\ LET digest == Head(queue).key
           items == Head(queue).items
           size == StatSize(disk, items[1])
       IN /\ total_space' = total_space + Reclaimable(size, items)
          /\ heap' = [heap EXCEPT ![cur] =
                        add_finding(@, DuplicateFinding(digest, items, size))]
    /\ queue' = Tail(queue)
    /\ UNCHANGED <<envVars, clock, sigs, write_json, call, remVars, simVars, op, pc, cur, sub_reports,
                   scanned, item, fd, written, result, failures, trace>>

\* items[0].stat() raises: nothing catches it, the operation ends there
DupStatError ==
    /\ pc = "sd_loop"
    /\ queue # <<>>
    /\ StatFails(disk, Head(queue).items[1])
    /\ failures' = Append(failures, Failure(cur, Head(queue).items[1], "stat"))
    /\ pc' = "aborted"
    /\ UNCHANGED <<envVars, clock, sigs, write_json, call, remVars, simVars, op, heap, cur, sub_reports,
                   queue, scanned, item, fd, total_space, written, result, trace>>

DupsDone ==
    /\ pc = "sd_loop"
    /\ queue = <<>>
    /\ pc' = "summary"
    /\ UNCHANGED <<envVars, clock, sigs, write_json, call, remVars, simVars, op, scanVars>>

\* ------------------------------------------------------------------------
\* End of every scan method: summary, finished_at, write, return

UmbrellaName == "escaneo_completo"

IsUmbrella(rid) == heap[rid].name = UmbrellaName

SubNames == [i \in 1..Len(sub_reports) |-> heap[sub_reports[i]].name]

SubFindingCounts == [i \in 1..Len(sub_reports) |-> Len(heap[sub_reports[i]].findings)]

\* the summary with the scanned total in place of the number of findings
SummaryCountsScanned(report) ==
    CASE report.name = "escaneo_archivos" ->
           [archivos_escaneados |-> scanned, sospechosos |-> scanned]
      [] report.name = "escaneo_procesos" ->
           [procesos_escaneados |-> scanned, sospechosos |-> scanned]
      [] report.name = "escaneo_gpu" ->
           [procesos_gpu_detectados |-> scanned, sospechosos |-> scanned]
      [] report.name = "busqueda_duplicados" ->
           [grupos |-> Len(fd.buckets), espacio_recuperable |-> total_space]
      [] report.name = UmbrellaName ->
           [reportes_incluidos |-> SubNames,
            hallazgos_totales |-> Len(sub_reports)]

\* the dictionary assigned to report.summary by the method that built report
SummaryOf(report) ==
    CASE report.name = "escaneo_archivos" ->
           [archivos_escaneados |-> scanned, sospechosos |-> Len(report.findings)]
      [] report.name = "escaneo_procesos" ->
           [procesos_escaneados |-> scanned, sospechosos |-> Len(report.findings)]
      [] report.name = "escaneo_gpu" ->
           [procesos_gpu_detectados |-> scanned, sospechosos |-> Len(report.findings)]
      [] report.name = "busqueda_duplicados" ->
           [grupos |-> Len(fd.result), espacio_recuperable |-> total_space]
      [] report.name = UmbrellaName ->
           [reportes_incluidos |-> SubNames,
            hallazgos_totales |-> SeqSum(SubFindingCounts)]

\* the report written before finished_at is set
StepAfterWriteFirst(p, umbrella) ==
    CASE p = "summary" -> IF umbrella THEN "merge" ELSE "write"
      [] p = "merge" -> "write"
      [] p = "write" -> "finish"
      [] p = "finish" -> "return"

\* the statement that follows in the method: summary, (full_scan: the merge,)
\* finished_at, write, return
StepAfter(p, umbrella) ==
    CASE p = "summary" -> IF umbrella THEN "merge" ELSE "finish"
      [] p = "merge" -> "finish"
      [] p = "finish" -> "write"
      [] p = "write" -> "return"

Summarize ==
    /\ pc = "summary"
    /\ heap' = [heap EXCEPT ![cur].summary = SummaryOf(heap[cur])]
    /\ pc' = StepAfter(pc, IsUmbrella(cur))
    /\ UNCHANGED <<envVars, clock, sigs, write_json, call, remVars, simVars, op, cur, sub_reports, queue,
                   scanned, item, fd, total_space, written, result, failures, trace>>

\* the merge without the limitations
MergeFindingsOnly(report, subs) ==
    [report EXCEPT
        !.findings = @ \o Flatten([i \in 1..Len(subs) |-> subs[i].findings])]

\* full_scan: findings.extend / limitations.extend for every sub-report
MergeInto(report, subs) ==
    [report EXCEPT
        !.findings = @ \o Flatten([i \in 1..Len(subs) |-> subs[i].findings]),
        !.limitations = @ \o Flatten([i \in 1..Len(subs) |-> subs[i].limitations])]

Merge ==
    /\ pc = "merge"
    /\ heap' = [heap EXCEPT ![cur] =
                  MergeInto(@, [i \in 1..Len(sub_reports) |-> heap[sub_reports[i]]])]
    /\ pc' = StepAfter(pc, IsUmbrella(cur))
    /\ UNCHANGED <<envVars, clock, sigs, write_json, call, remVars, simVars, op, cur, sub_reports, queue,
                   scanned, item, fd, total_space, written, result, failures, trace>>

\* report.finished_at = datetime.utcnow()
Finish ==
    /\ pc = "finish"
    /\ \E t \in Now :
         /\ clock' = t
         /\ heap' = [heap EXCEPT ![cur].finished_at = <<t>>]
    /\ trace' = Append(trace, Event("finish", cur))
    /\ pc' = StepAfter(pc, IsUmbrella(cur))
    /\ UNCHANGED <<envVars, sigs, write_json, call, remVars, simVars, op, cur, sub_reports, queue,
                   scanned, item, fd, total_space, written, result, failures>>

\* ReportWriter.write: <timestamp>_<name>.<ext> in the report directory
ReportPath(t, name, to_json) ==
    [timestamp |-> t, name |-> name, ext |-> IF to_json THEN "json" ELSE "txt"]

Write ==
    /\ pc = "write"
    /\ \E t \in Now :
         /\ clock' = t
         /\ written' = Append(written,
                [path |-> ReportPath(t, heap[cur].name, write_json),
                 rid |-> cur, content |-> heap[cur]])
    /\ trace' = Append(trace, Event("write", cur))
    /\ pc' = StepAfter(pc, IsUmbrella(cur))
    /\ UNCHANGED <<envVars, sigs, write_json, call, remVars, simVars, op, heap, cur, sub_reports, queue,
                   scanned, item, fd, total_space, result, failures>>

\* return report, to the caller outside
Return ==
    /\ pc = "return"
    /\ ~(op = "full_scan" /\ ~IsUmbrella(cur))
    /\ result' = cur
    /\ trace' = Append(trace, Event("return", cur))
    /\ pc' = "done"
    /\ UNCHANGED <<envVars, clock, sigs, write_json, call, remVars, simVars, op, heap, cur, sub_reports,
                   queue, scanned, item, fd, total_space, written, failures>>

\* return report, to full_scan: the next call, or the merge after the last
ReturnToFullScan ==
    /\ pc = "return"
    /\ op = "full_scan"
    /\ ~IsUmbrella(cur)
    /\ sub_reports' = Append(sub_reports, cur)
    /\ trace' = Append(trace, Event("return", cur))
    /\ cur' = 1
    /\ pc' = IF Len(sub_reports) + 1 < Len(SubScanOrder) THEN "full_call" ELSE "summary"
    /\ UNCHANGED <<envVars, clock, sigs, write_json, call, remVars, simVars, op, heap, queue, scanned,
                   item, fd, total_space, written, result, failures>>

\* the caller is done with what the operation returned (ConsoleMenu.run goes
\* round its loop): the reports of the operation are dropped
BackToMenu ==
    /\ pc = "done"
    /\ pc' = "idle"
    /\ op' = "none"
    /\ heap' = <<>>
    /\ cur' = 0
    /\ sub_reports' = <<>>
    /\ queue' = <<>>
    /\ scanned' = 0
    /\ item' = NoItem
    /\ fd' = NoFd
    /\ total_space' = 0
    /\ written' = <<>>
    /\ result' = 0
    /\ failures' = <<>>
    /\ trace' = <<>>
    /\ UNCHANGED <<envVars, clock, sigs, write_json, call, remVars, simVars>>

\* ------------------------------------------------------------------------

Next ==
    \/ \E p \in Names : Vanish(p)
    \/ \E p \in Names : Revoke(p)
    \/ \E p \in Names : Detach(p)
    \/ \E roots \in ScanRoots : scan_files(roots)
    \/ \E processes \in ProcessTables : scan_processes(processes)
    \/ \E outcome \in GpuOutcomes : scan_gpu_processes(outcome)
    \/ \E roots \in ScanRoots : scan_duplicates(roots)
    \/ \E paths \in SeqsUpTo(Names, MaxPaths) : find_duplicates(paths)
    \/ full_scan
    \/ CallSubScan
    \/ FileSkip
    \/ FileHashError
    \/ FileHashed
    \/ FileAnalyse
    \/ FileAnalyseError
    \/ FilesDone
    \/ ProcessStep
    \/ ProcessesDone
    \/ GpuStep
    \/ GpuDone
    \/ SizeStatError
    \/ SizeStat
    \/ SizeGroupsDone
    \/ DupHashError
    \/ DupHash
    \/ DupReturn
    \/ DupFinding
    \/ DupStatError
    \/ DupsDone
    \/ Summarize
    \/ Merge
    \/ Finish
    \/ Write
    \/ Return
    \/ ReturnToFullScan
    \/ BackToMenu

Spec == Init /\ [][Next]_vars

TypeOK ==
    /\ envCount \in 0..MaxEnv
    /\ clock \in 0..MaxClock
    /\ cur \in 0..Len(heap)
    /\ result \in 0..Len(heap)

\* ------------------------------------------------------------------------
\* The library functions called on their own, outside a scan

libFrame == <<envVars, clock, write_json, op, pc, scanVars, remVars, simVars>>

\* signatures a caller may add: a second version of custom-hello that has a
\* digest and a pattern, a replacement of a bundled signature, and a signature
\* with two patterns that match the same names
SigHelloWorld ==
    Signature("custom-hello", "Digest of another content, or a text file",
              Digest("world"), << <<"*", ".", "t", "x", "t">> >>)
SigBatchWide ==
    Signature("suspicious-batch-naming", "Matches every batch file",
              NoneStr, << <<"*", ".", "b", "a", "t">> >>)
SigText ==
    Signature("custom-text", "Matches text files", NoneStr,
              << <<"a", ".", "*">>, <<"*", ".", "t", "x", "t">> >>)

AddedSignatures == {SigHello, SigHelloWorld, SigBatchWide, SigText}

\* the sha256 and filename arguments of find_matches; None and "" are <<>>
ShaInputs == {NoneStr} \cup {Digest(data) : data \in Contents}

FilenameInputs ==
    {NoneStr, FileA, FileExe, FileSetup,
     <<"d", "/">> \o FileSetup,
     <<"u", "p", "d", "a", "t", "e", ".", "b", "a", "t">>,
     FileSetup \o <<".", "t", "x", "t">>}

\* SignatureDatabase.add_signature(signature)
CallAddSignature(sig) ==
    /\ pc = "idle"
    /\ call.fn = "none"
    /\ sigs' = add_signature(sigs, sig)
    /\ call' = Call("add_signature", sig, FALSE, <<>>)
    /\ UNCHANGED libFrame

\* SignatureDatabase.find_matches(sha256=sha, filename=filename)
CallFindMatches(sha, filename) ==
    /\ pc = "idle"
    /\ call.fn = "none"
    /\ call' = Call("find_matches", [sha256 |-> sha, filename |-> filename], FALSE,
                    find_matches(sigs, sha, filename))
    /\ UNCHANGED <<sigs, libFrame>>

\* the bytes of a file that is read block by block
FileContents == SeqsUpTo({"x", "y"}, MaxFileLen)

Min(a, b) == IF a <= b THEN a ELSE b

\* handle.read(block_size) after pos bytes: the next block_size bytes, fewer
\* at the end of the file, none after it
ReadBlock(content, pos, block_size) ==
    SubSeq(content, pos + 1, Min(pos + block_size, Len(content)))

\* the loop of chunk_reader: read, stop on an empty block, else yield
RECURSIVE ChunksFrom(_, _, _)
ChunksFrom(content, pos, block_size) ==
    LET data == ReadBlock(content, pos, block_size)
    IN IF data = <<>> THEN <<>>
       ELSE <<data>> \o ChunksFrom(content, pos + Len(data), block_size)

\* the reader stopping at the first block that is not full
ChunkReaderWholeBlocks(content, block_size) ==
    SelectSeq(ChunksFrom(content, 0, block_size), LAMBDA c : Len(c) = block_size)

chunk_reader(content, block_size) == ChunksFrom(content, 0, block_size)

\* hashlib.sha256(): update() feeds the bytes in, hexdigest() is the digest
\* of all the bytes fed in so far
RECURSIVE Sha256Update(_, _)
Sha256Update(state, chunks) ==
    IF chunks = <<>> THEN state
    ELSE Sha256Update(state \o Head(chunks), Tail(chunks))

\* compute_sha256 on the content of the file, read with block_size
Sha256Stream(content, block_size) ==
    Digest(Sha256Update(<<>>, chunk_reader(content, block_size)))

\* compute_sha256(path, block_size) on a readable file
CallComputeSha256(content, block_size) ==
    /\ pc = "idle"
    /\ call.fn = "none"
    /\ call' = Call("compute_sha256",
                    [content |-> content, block_size |-> block_size], FALSE,
                    [chunks |-> chunk_reader(content, block_size),
                     digest |-> Sha256Stream(content, block_size)])
    /\ UNCHANGED <<sigs, libFrame>>

\* what path.stat() does inside analyse_file: it returns, or raises
\* FileNotFoundError, PermissionError or another OSError
StatOutcomes == {"ok", "notfound", "denied", "oserror"}

SizeInputs == {0, LARGE_FILE_THRESHOLD, LARGE_FILE_THRESHOLD + 1, 60 * 1024 * 1024}

\* paths handed to analyse_file: one per suspicious extension, in either
\* case, a name that is only an extension, an inner extension, a directory
\* with an extension
HeuristicPaths ==
    {FileA, FileExe, FileSetup,
     <<"l", ".", "d", "l", "l">>,
     <<"x", ".", "S", "c", "r">>,
     <<"x", ".", "j", "s">>,
     <<"x", ".", "v", "b", "s">>,
     <<".", "e", "x", "e">>,
     <<"x", ".", "e", "x", "e", ".", "t", "x", "t">>,
     <<"d", ".", "e", "x", "e", "/", "n">>}

\* heuristics.analyse_file(path); the except clause names FileNotFoundError
\* and PermissionError only
CallAnalyseFile(path, stat, size) ==
    /\ pc = "idle"
    /\ call.fn = "none"
    /\ call' = Call("analyse_file", [path |-> path, stat |-> stat, size |-> size],
                    stat = "oserror",
                    IF stat = "oserror" THEN <<>>
                    ELSE analyse_file(path, stat # "ok", size))
    /\ UNCHANGED <<sigs, libFrame>>

ProcessNames ==
    { <<"s", "h">>, <<"x", ".", "T", "M", "P">>, <<"x", ".", "t", "m", "p">>,
      <<"t", "m", "p">>, <<".", "t", "m", "p">> }

ProcessExes ==
    { <<>>, <<"/", "b", "/", "s", "h">>, <<"/", "b", "/", "~", "$", "u">>,
      <<"~", "$", "u">>, <<"/", "~", "$", "d", "/", "u">>, <<"/", "b", "/", "~">> }

\* heuristics.analyse_process({"name": ..., "exe": ..., "startup": ...})
CallAnalyseProcess(name, exe, startup) ==
    /\ pc = "idle"
    /\ call.fn = "none"
    /\ call' = Call("analyse_process", ProcessInfo(0, name, exe, startup), FALSE,
                    analyse_process(ProcessInfo(0, name, exe, startup)))
    /\ UNCHANGED <<sigs, libFrame>>

\* ------------------------------------------------------------------------
\* Reports written as JSON and read back (core/report.py, json)

\* Python values, each with its type
PyNone == [t |-> "none", v |-> <<>>]
PyInt(n) == [t |-> "int", v |-> n]
PyStr(str) == [t |-> "str", v |-> str]
PyList(items) == [t |-> "list", v |-> items]
PyTuple(items) == [t |-> "tuple", v |-> items]
PyDict(members) == [t |-> "dict", v |-> members]

\* a dictionary entry with a string key
KV(key, val) == [k |-> PyStr(key), val |-> val]

\* str(n) for the integers the reports of the model hold
IntText(n) == <<"0", "1", "2", "3", "4", "5", "6", "7", "8", "9">>[n + 1]

\* the member name json.dump writes for a dictionary key: a string as it is,
\* an integer as its decimal text, None as null
KeyText(key) ==
    CASE key.t = "str" -> key.v
      [] key.t = "int" -> IntText(key.v)
      [] key.t = "none" -> "null"

\* json.dump: None is null, an integer a number, a string a string, a list
\* or a tuple an array, a dictionary an object
RECURSIVE JsonDump(_)
JsonDump(value) ==
    CASE value.t = "none" -> [t |-> "null", v |-> <<>>]
      [] value.t = "int" -> [t |-> "number", v |-> value.v]
      [] value.t = "str" -> [t |-> "string", v |-> value.v]
      [] value.t \in {"list", "tuple"} ->
           [t |-> "array", v |-> [i \in 1..Len(value.v) |-> JsonDump(value.v[i])]]
      [] value.t = "dict" ->
           [t |-> "object",
            v |-> [i \in 1..Len(value.v) |->
                     [k |-> KeyText(value.v[i].k), val |-> JsonDump(value.v[i].val)]]]

\* d[key] = val on the members of a dictionary
PyDictSet(members, key, val) ==
    IF \E i \in 1..Len(members) : members[i].k = key
    THEN [i \in 1..Len(members) |->
            IF members[i].k = key THEN [k |-> key, val |-> val] ELSE members[i]]
    ELSE Append(members, [k |-> key, val |-> val])

\* json.load: null is None, a number an integer, a string a string, an array
\* a list, an object a dictionary with string keys (a repeated name keeps its
\* last value)
RECURSIVE JsonLoad(_)
RECURSIVE JsonLoadMembers(_, _)
JsonLoadMembers(members, acc) ==
    IF members = <<>> THEN acc
    ELSE JsonLoadMembers(Tail(members),
            PyDictSet(acc, PyStr(Head(members).k), JsonLoad(Head(members).val)))

JsonLoad(node) ==
    CASE node.t = "null" -> PyNone
      [] node.t = "number" -> PyInt(node.v)
      [] node.t = "string" -> PyStr(node.v)
      [] node.t = "array" -> PyList([i \in 1..Len(node.v) |-> JsonLoad(node.v[i])])
      [] node.t = "object" -> PyDict(JsonLoadMembers(node.v, <<>>))

\* datetime.isoformat() of the seconds the clock of the model reaches
IsoFormat(t) ==
    <<"1970-01-01T00:00:00", "1970-01-01T00:00:01", "1970-01-01T00:00:02">>[t + 1]

PyStrings(strs) == PyList([i \in 1..Len(strs) |-> PyStr(strs[i])])

\* one entry of the "findings" list of to_dict
ItemDict(it) ==
    PyDict(<<KV("title", PyStr(it.title)),
             KV("details", it.details),
             KV("risk", PyStr(it.risk)),
             KV("recommendations", PyStrings(it.recommendations))>>)

\* the dictionary with the recommendations of every finding left empty
ToDictWithoutRecommendations(report) ==
    PyDict(<<KV("name", PyStr(report.name)),
             KV("started_at", PyStr(IsoFormat(report.started_at))),
             KV("finished_at", IF report.finished_at = None THEN PyNone
                               ELSE PyStr(IsoFormat(report.finished_at[1]))),
             KV("summary", report.summary),
             KV("findings",
                PyList([i \in 1..Len(report.findings) |->
                          ItemDict([report.findings[i] EXCEPT !.recommendations = <<>>])])),
             KV("limitations", PyStrings(report.limitations))>>)

\* ScanReport.to_dict
to_dict(report) ==
    PyDict(<<KV("name", PyStr(report.name)),
             KV("started_at", PyStr(IsoFormat(report.started_at))),
             KV("finished_at", IF report.finished_at = None THEN PyNone
                               ELSE PyStr(IsoFormat(report.finished_at[1]))),
             KV("summary", report.summary),
             KV("findings",
                PyList([i \in 1..Len(report.findings) |-> ItemDict(report.findings[i])])),
             KV("limitations", PyStrings(report.limitations))>>)

\* summaries a report may carry: the ones of the scanner and of the tests,
\* and one that json.dump accepts although it holds an integer key and a tuple
SummaryInputs ==
    { PyDict(<<>>),
      PyDict(<<KV("encontrados", PyInt(1))>>),
      PyDict(<<KV("reportes_incluidos",
                  PyStrings(<<"escaneo_archivos", "escaneo_gpu">>)),
               KV("hallazgos_totales", PyInt(0))>>),
      PyDict(<<KV("exe", PyNone), KV("anidado", PyDict(<<KV("a", PyInt(2))>>))>>),
      PyDict(<<[k |-> PyInt(1), val |-> PyTuple(<<PyInt(1), PyInt(2)>>)]>>) }

ItemInputs ==
    { ReportItem("Elemento", PyDict(<<KV("ruta", PyStr("test"))>>), "medium", <<>>),
      ReportItem("Proceso sospechoso: sh",
                 PyDict(<<KV("pid", PyInt(7)), KV("exe", PyNone),
                          KV("conexiones", PyList(<<>>))>>),
                 "high", <<"Revisar manualmente">>),
      ReportItem("Duplicados hash 2cf24dba",
                 PyDict(<<KV("archivos", PyStrings(<<"a.txt", "b.txt">>)),
                          KV("tamano", PyInt(5))>>),
                 "low", <<"Considerar eliminar duplicados", "Revisar antes">>) }

\* the reports handed to the writer
ReportInputs ==
    { [ScanReport(name, 0) EXCEPT !.finished_at = <<0>>, !.summary = summary,
                                  !.findings = findings,
                                  !.limitations = <<"No se pudo leer x">>] :
        name \in {"prueba", "Mi Reporte"}, summary \in SummaryInputs,
        findings \in SeqsUpTo(ItemInputs, MaxFindings) }

\* ReportWriter.write(report, to_json=True), and the file read with json.load
CallWriteReport(report) ==
    /\ pc = "idle"
    /\ call.fn = "none"
    /\ call' = Call("write", report, FALSE,
                    [file |-> JsonDump(to_dict(report)),
                     parsed |-> JsonLoad(JsonDump(to_dict(report)))])
    /\ UNCHANGED <<sigs, libFrame>>

\* ------------------------------------------------------------------------
\* Configuration files (core/config.py)

\* DEFAULT_CONFIG_PATHS
DEFAULT_CONFIG_PATHS ==
    <<"config/default_config.json", "~/.intelligent_antivirus/config.json">>

CustomPath == "custom.json"

\* what a configuration file may be: not there, valid JSON, text that is no
\* JSON, or a file that may not be opened
ConfigStates == {"missing", "valid", "invalid", "denied"}

\* the dictionary json.load gives for a valid file, told apart by its file
ConfigOf(path) == [loaded_from |-> path]

\* DEFAULTS.copy()
DEFAULTS == [loaded_from |-> "DEFAULTS"]

Returned(data) == [raised |-> FALSE, value |-> data]

Raised(exception) == [raised |-> TRUE, value |-> exception]

\* the loop with invalid JSON logged and skipped like a missing file
RECURSIVE LoadFirstValid(_, _)
LoadFirstValid(candidates, state) ==
    IF candidates = <<>> THEN Returned(DEFAULTS)
    ELSE CASE state[Head(candidates)] = "valid" -> Returned(ConfigOf(Head(candidates)))
           [] state[Head(candidates)] = "denied" -> Raised("PermissionError")
           [] OTHER -> LoadFirstValid(Tail(candidates), state)

\* the loop over the candidates: a missing file is passed over, invalid JSON
\* is raised again, any other exception is not caught
RECURSIVE LoadFirst(_, _)
LoadFirst(candidates, state) ==
    IF candidates = <<>> THEN Returned(DEFAULTS)
    ELSE CASE state[Head(candidates)] = "missing" -> LoadFirst(Tail(candidates), state)
           [] state[Head(candidates)] = "valid" -> Returned(ConfigOf(Head(candidates)))
           [] state[Head(candidates)] = "invalid" -> Raised("JSONDecodeError")
           [] state[Head(candidates)] = "denied" -> Raised("PermissionError")

\* the candidates of load_config(custom_path); None and "" are <<>>
Candidates(custom_path) ==
    (IF custom_path # <<>> THEN custom_path ELSE <<>>) \o DEFAULT_CONFIG_PATHS

load_config(custom_path, state) == LoadFirst(Candidates(custom_path), state)

CallLoadConfig(custom_path, state) ==
    /\ pc = "idle"
    /\ call.fn = "none"
    /\ call' = [fn |-> "load_config",
                args |-> [custom_path |-> custom_path, state |-> state],
                out |-> load_config(custom_path, state)]
    /\ UNCHANGED <<sigs, libFrame>>

\* the caller has taken the outcome of the call
ReturnFromCall ==
    /\ pc = "idle"
    /\ call.fn # "none"
    /\ call' = NoCall
    /\ UNCHANGED <<sigs, libFrame>>

NextLibrary ==
    \/ \E sig \in AddedSignatures : CallAddSignature(sig)
    \/ \E sha \in ShaInputs, filename \in FilenameInputs : CallFindMatches(sha, filename)
    \/ \E path \in HeuristicPaths, stat \in StatOutcomes, size \in SizeInputs :
          CallAnalyseFile(path, stat, size)
    \/ \E name \in ProcessNames, exe \in ProcessExes, startup \in BOOLEAN :
          CallAnalyseProcess(name, exe, startup)
    \/ \E content \in FileContents, block_size \in 1..MaxBlockSize :
          CallComputeSha256(content, block_size)
    \/ \E report \in ReportInputs : CallWriteReport(report)
    \/ \E custom_path \in {<<>>, <<CustomPath>>},
          state \in [{CustomPath} \cup Range(DEFAULT_CONFIG_PATHS) -> ConfigStates] :
          CallLoadConfig(custom_path, state)
    \/ ReturnFromCall

SpecLibrary == Init /\ [][NextLibrary]_vars


\* ------------------------------------------------------------------------
\* One ReportWriter asked to write several reports (core/report.py)

\* report.name.replace(' ', '_').lower()
Sanitize(name) == Lower([i \in 1..Len(name) |-> IF name[i] = " " THEN "_" ELSE name[i]])

\* the names of the reports handed to the writer
WriterNames == {<<"M", "i", " ", "R">>, <<"m", "i", "_", "r">>, <<"g", "p", "u">>}

\* ReportWriter.write(report, to_json=to_json): the timestamp has the second
\* datetime.utcnow() returns, and path.open("w") creates the file or
\* truncates the one that is there
WriterWrite(name, to_json) ==
    /\ pc = "idle"
    /\ call.fn = "none"
    /\ Len(written) < MaxWrites
    /\ \E t \in clock..MaxSeconds :
         /\ clock' = t
         /\ written' = Append(written,
                [path |-> ReportPath(t, Sanitize(name), to_json),
                 rid |-> 0, content |-> name])
    /\ UNCHANGED <<envVars, sigs, write_json, call, remVars, simVars, op, pc, heap, cur, sub_reports,
                   queue, scanned, item, fd, total_space, result, failures, trace>>

NextWriter == \E name \in WriterNames, to_json \in BOOLEAN : WriterWrite(name, to_json)

SpecWriter == Init /\ [][NextWriter]_vars


\* ------------------------------------------------------------------------
\* Remediator (core/remediation.py) and the files it moves and removes

RemediationAction(action, target, status, details) ==
    [action |-> action, target |-> target, status |-> status, details |-> details]

\* Remediator.quarantine_dir
quarantine_dir == <<"q">>

\* directory / name
Join(dir, name) == dir \o <<"/">> \o name

\* PurePath.stem: the name without its suffix
Stem(p) == SubSeq(Basename(p), 1, Len(Basename(p)) - Len(Suffix(p)))

\* three files of one name in three directories
SourcePaths ==
    {<<"a", "/", "x", ".", "t">>, <<"b", "/", "x", ".", "t">>, <<"c", "/", "x", ".", "t">>}

\* what each of them holds
SourceContent(path) ==
    CASE Head(path) = "a" -> "one"
      [] Head(path) = "b" -> "two"
      [] Head(path) = "c" -> "three"

\* a path whose stat() raises an OSError that Path.exists() lets through:
\* below a directory that may not be searched, or with too long a name
UnreachablePath == <<"n", "/", "x", ".", "t">>

ExistsRaises(path) == path = UnreachablePath

\* Path.exists() where stat() answers
Exists(fs, path) == path \in DOMAIN fs

\* shutil.move(src, dst) between files: a file that is at dst is replaced
Move(fs, src, dst) ==
    [p \in (DOMAIN fs \ {src}) \cup {dst} |-> IF p = dst THEN fs[src] ELSE fs[p]]

\* path.unlink(), and a file taken away by another program
Remove(fs, path) == [p \in DOMAIN fs \ {path} |-> fs[p]]

\* what a method did: whether it raised, the files after it, the entries it
\* appended to the log
Done(raised, fs, entries) == [raised |-> raised, files |-> fs, entries |-> entries]

\* the destination of quarantine(path); vanished: the file was removed after
\* path.exists() and path.stat() raises
Destination(fs, path, vanished) ==
    IF Exists(fs, Join(quarantine_dir, Basename(path)))
    THEN Join(quarantine_dir,
              Stem(path)
              \o <<"_", IntText(IF vanished THEN 0 ELSE fs[path].mtime)>>
              \o Suffix(path))
    ELSE Join(quarantine_dir, Basename(path))

\* Remediator.quarantine(path); outcome is what the file system does during
\* the call: "ok", "refused" (shutil.move raises, nothing moved), "vanished"
\* (another program removes the file after path.exists())
quarantine(fs, dry, path, outcome) ==
    IF ExistsRaises(path) THEN Done(TRUE, fs, <<>>)
    ELSE IF ~Exists(fs, path)
    THEN Done(FALSE, fs,
              <<RemediationAction("quarantine", path, "failed", <<"El archivo no existe">>)>>)
    ELSE LET destination == Destination(fs, path, outcome = "vanished")
             after == IF outcome = "vanished" THEN Remove(fs, path) ELSE fs
         IN IF dry
            THEN Done(FALSE, after,
                      <<RemediationAction("quarantine", path, "simulated",
                                          <<"Would move to", destination>>)>>)
            ELSE IF outcome = "ok"
            THEN Done(FALSE, Move(fs, path, destination),
                      <<RemediationAction("quarantine", path, "success",
                                          <<"Moved to", destination>>)>>)
            ELSE Done(FALSE, after,
                      <<RemediationAction("quarantine", path, "failed", <<"str(exc)">>)>>)

\* delete without the dry_run test
DeleteForReal(fs, dry, path, outcome) ==
    IF ExistsRaises(path) THEN Done(TRUE, fs, <<>>)
    ELSE IF ~Exists(fs, path)
    THEN Done(FALSE, fs,
              <<RemediationAction("delete", path, "failed", <<"El elemento no existe">>)>>)
    ELSE Done(FALSE, Remove(fs, path),
              <<RemediationAction("delete", path, "success", <<"Removed permanently">>)>>)

\* Remediator.delete(path) of a file
delete(fs, dry, path, outcome) ==
    IF ExistsRaises(path) THEN Done(TRUE, fs, <<>>)
    ELSE IF ~Exists(fs, path)
    THEN Done(FALSE, fs,
              <<RemediationAction("delete", path, "failed", <<"El elemento no existe">>)>>)
    ELSE IF dry
    THEN Done(FALSE, fs,
              <<RemediationAction("delete", path, "simulated",
                                  <<"Would delete permanently">>)>>)
    ELSE IF outcome = "ok"
    THEN Done(FALSE, Remove(fs, path),
              <<RemediationAction("delete", path, "success", <<"Removed permanently">>)>>)
    ELSE Done(FALSE, fs, <<RemediationAction("delete", path, "failed", <<"str(exc)">>)>>)

\* Remediator.restore(filename, destination)
restore(fs, dry, filename, destination, outcome) ==
    LET source == Join(quarantine_dir, filename)
    IN IF ExistsRaises(source) THEN Done(TRUE, fs, <<>>)
       ELSE IF ~Exists(fs, source)
       THEN Done(FALSE, fs,
                 <<RemediationAction("restore", destination, "failed",
                                     <<"File not present in quarantine">>)>>)
       ELSE IF dry
       THEN Done(FALSE, fs,
                 <<RemediationAction("restore", destination, "simulated",
                                     <<"Would restore", source>>)>>)
       ELSE IF outcome = "ok"
       THEN Done(FALSE, Move(fs, source, destination),
                 <<RemediationAction("restore", destination, "success",
                                     <<"Restored from", source>>)>>)
       ELSE Done(FALSE, fs,
                 <<RemediationAction("restore", destination, "failed", <<"str(exc)">>)>>)

\* the outcomes that make a difference to a call on source: the file system
\* can refuse only what is attempted, and a file can vanish from under
\* quarantine only where it reads the modification time
Outcomes(method, source, destination) ==
    {"ok"}
    \cup (IF ~ExistsRaises(source) /\ Exists(files, source) /\ ~dry_run
          THEN {"refused"} ELSE {})
    \cup (IF /\ method = "quarantine"
             /\ ~ExistsRaises(source) /\ Exists(files, source)
             /\ Exists(files, destination)
          THEN {"vanished"} ELSE {})

\* the method has run: its effect on the files and on the log
Effect(method, args, done) ==
    /\ Len(log) < MaxCalls
    /\ pc = "idle"
    /\ files' = done.files
    /\ log' = log \o done.entries
    /\ call' = Call(method, args, done.raised, <<>>)
    /\ UNCHANGED <<envVars, clock, sigs, write_json, op, pc, scanVars, dry_run, simVars>>

CallQuarantine(path) ==
    \E outcome \in Outcomes("quarantine", path, Join(quarantine_dir, Basename(path))) :
        Effect("quarantine", [path |-> path, outcome |-> outcome],
               quarantine(files, dry_run, path, outcome))

CallDelete(path) ==
    \E outcome \in Outcomes("delete", path, path) :
        Effect("delete", [path |-> path, outcome |-> outcome],
               delete(files, dry_run, path, outcome))

CallRestore(filename, destination) ==
    \E outcome \in Outcomes("restore", Join(quarantine_dir, filename), destination) :
        Effect("restore",
               [filename |-> filename, destination |-> destination, outcome |-> outcome],
               restore(files, dry_run, filename, destination, outcome))

\* the names asked back from quarantine
RestoreNames == {<<"x", ".", "t">>, <<"x", "_", "1", ".", "t">>}

\* Remediator(quarantine_dir, dry_run=...) over the three files; the first
\* two were last modified in the same second
InitRemediation ==
    /\ InitScanner
    /\ IdleWorld
    /\ \A n \in Names : disk[n].data = "hello"
    /\ dry_run \in BOOLEAN
    /\ log = <<>>
    /\ \E mtime \in 1..MaxMtime :
         files = [p \in SourcePaths |->
                    [content |-> SourceContent(p),
                     mtime |-> IF Head(p) = "c" THEN mtime ELSE 1]]

NextRemediation ==
    \/ \E path \in SourcePaths \cup {UnreachablePath} : CallQuarantine(path)
    \/ \E path \in SourcePaths \cup {UnreachablePath} : CallDelete(path)
    \/ \E filename \in RestoreNames, destination \in {<<"a", "/", "x", ".", "t">>} :
          CallRestore(filename, destination)

SpecRemediation == InitRemediation /\ [][NextRemediation]_vars


\* ------------------------------------------------------------------------
\* The simulation game (entities.py): a World stepped turn by turn; what the
\* random number generator decides is a choice

Process(name) == [name |-> name, compromised |-> FALSE]

\* created (history): the turn in which create_clone made the virus, 0 for
\* the viruses the World was built with
Virus(name, replicator, created) ==
    [name |-> name, replicator |-> replicator, active |-> TRUE, clones_created |-> 0,
     origin_name |-> name, created |-> created]

\* World.antivirus_agents
antivirus_agents == <<"agent">>

\* Virus.create_clone(clone_id)
create_clone(virus, clone_id, t) ==
    [Virus(<<virus.origin_name, "clone", clone_id>>, virus.replicator, t)
        EXCEPT !.origin_name = virus.origin_name]

\* the cap tested with > in place of >=
ScheduleOneTooMany(vs, pending, virus) ==
    IF Len(vs) + Len(pending) > max_viruses
    THEN [accepted |-> FALSE, pending |-> pending]
    ELSE [accepted |-> TRUE, pending |-> Append(pending, virus)]

\* World.schedule_new_virus(virus): what it returns, and the queue after it
schedule_new_virus(vs, pending, virus) ==
    IF Len(vs) + Len(pending) >= max_viruses
    THEN [accepted |-> FALSE, pending |-> pending]
    ELSE [accepted |-> TRUE, pending |-> Append(pending, virus)]

WorldEvent(verb, actor, target) == [verb |-> verb, actor |-> actor, target |-> target]

Compromised(ps) == {i \in 1..Len(ps) : ps[i].compromised}

Healthy(ps) == {i \in 1..Len(ps) : ~ps[i].compromised}

Active(vs) == {i \in 1..Len(vs) : vs[i].active}

worldFrame == <<envVars, clock, sigs, write_json, op, pc, scanVars, remVars>>

\* World.step, to the end of the loop over the processes: Process.step lets
\* a compromised process heal or not
WorldStepBegin ==
    /\ phase = "idle"
    /\ viruses # <<>>
    /\ turn < MaxTurns
    /\ turn' = turn + 1
    /\ \E healed \in SUBSET Compromised(world_processes) :
         /\ world_processes' =
               [i \in 1..Len(world_processes) |->
                  IF i \in healed THEN [world_processes[i] EXCEPT !.compromised = FALSE]
                  ELSE world_processes[i]]
         /\ turn_events' =
               <<WorldEvent("turn", <<>>, <<>>)>>
               \o SelectSeq([i \in 1..Len(world_processes) |->
                               WorldEvent("stabilized", world_processes[i].name, <<>>)],
                            LAMBDA e : \E i \in healed : world_processes[i].name = e.actor)
    /\ phase' = "viruses"
    /\ idx' = 1
    /\ todo' = Len(viruses)
    /\ call' = NoCall
    /\ UNCHANGED <<worldFrame, viruses, pending_viruses, clone_counter, event_log>>

\* Virus.step of the virus the loop has reached, one that is not active
VirusSleeps ==
    /\ phase = "viruses"
    /\ idx <= todo
    /\ ~viruses[idx].active
    /\ idx' = idx + 1
    /\ call' = NoCall
    /\ UNCHANGED <<worldFrame, world_processes, viruses, pending_viruses, clone_counter,
                   turn, phase, todo, turn_events, event_log>>

\* Virus.step of an active virus: it tries to compromise a healthy process,
\* and a replicator may make a clone and hand it to schedule_new_virus
VirusStep(target, infected, replicates) ==
    /\ phase = "viruses"
    /\ idx <= todo
    /\ viruses[idx].active
    /\ IF Healthy(world_processes) = {} THEN target = 0 /\ ~infected
       ELSE target \in Healthy(world_processes)
    /\ replicates => viruses[idx].replicator
    /\ LET virus == viruses[idx]
           attack == IF target = 0 THEN <<>>
                     ELSE <<WorldEvent(IF infected THEN "compromised" ELSE "failed",
                                       virus.name, world_processes[target].name)>>
           clone == create_clone(virus, clone_counter + 1, turn)
           scheduled == schedule_new_virus(viruses, pending_viruses, clone)
       IN /\ world_processes' =
                IF infected THEN [world_processes EXCEPT ![target].compromised = TRUE]
                ELSE world_processes
          /\ IF replicates
             THEN /\ clone_counter' = clone_counter + 1
                  /\ pending_viruses' = scheduled.pending
                  /\ call' = Call("schedule_new_virus", clone, FALSE, scheduled.accepted)
                  /\ IF scheduled.accepted
                     THEN /\ viruses' = [viruses EXCEPT ![idx].clones_created = @ + 1]
                          /\ turn_events' =
                                turn_events \o attack
                                \o <<WorldEvent("replicated", virus.name, clone.name)>>
                     ELSE /\ viruses' = viruses
                          /\ turn_events' = turn_events \o attack
             ELSE /\ call' = NoCall
                  /\ turn_events' = turn_events \o attack
                  /\ UNCHANGED <<clone_counter, pending_viruses, viruses>>
    /\ idx' = idx + 1
    /\ UNCHANGED <<worldFrame, turn, phase, todo, event_log>>

\* World.step after the loop over list(self.viruses): "Apply scheduled
\* viruses", before the antivirus agents take their turn
ApplyPending ==
    /\ phase = "viruses"
    /\ idx > todo
    /\ viruses' = viruses \o pending_viruses
    /\ pending_viruses' = <<>>
    /\ phase' = "agents"
    /\ idx' = 1
    /\ call' = NoCall
    /\ UNCHANGED <<worldFrame, world_processes, clone_counter, turn, todo, turn_events,
                   event_log>>

\* Antivirus.step: a scan of one active virus, that neutralizes it or
\* misses, and maybe the repair of one compromised process
AgentStep(target, hit, repaired) ==
    /\ phase = "agents"
    /\ idx <= Len(antivirus_agents)
    /\ IF Active(viruses) = {} THEN target = 0 /\ ~hit ELSE target \in Active(viruses)
    /\ repaired \in Compromised(world_processes) \cup {0}
    /\ viruses' = IF hit THEN [viruses EXCEPT ![target].active = FALSE] ELSE viruses
    /\ world_processes' =
          IF repaired # 0 THEN [world_processes EXCEPT ![repaired].compromised = FALSE]
          ELSE world_processes
    /\ turn_events' =
          turn_events
          \o (IF target = 0 THEN <<>>
              ELSE <<WorldEvent(IF hit THEN "neutralized" ELSE "missed",
                                antivirus_agents[idx], viruses[target].name)>>)
          \o (IF repaired = 0 THEN <<>>
              ELSE <<WorldEvent("repaired", antivirus_agents[idx],
                                world_processes[repaired].name)>>)
    /\ idx' = idx + 1
    /\ call' = NoCall
    /\ UNCHANGED <<worldFrame, pending_viruses, clone_counter, turn, phase, todo,
                   event_log>>

\* World.step: the events of the turn are logged and returned
WorldStepEnd ==
    /\ phase = "agents"
    /\ idx > Len(antivirus_agents)
    /\ event_log' = Append(event_log, turn_events)
    /\ turn_events' = <<>>
    /\ phase' = "idle"
    /\ idx' = 0
    /\ todo' = 0
    /\ call' = NoCall
    /\ UNCHANGED <<worldFrame, world_processes, viruses, pending_viruses, clone_counter,
                   turn>>

\* World(processes, antivirus_agents, viruses, max_viruses=max_viruses) with
\* one virus or more, up to as many as max_viruses allows; the third is no
\* replicator and may have been neutralized before
InitWorld ==
    /\ InitScanner
    /\ \A n \in Names : disk[n].data = "hello"
    /\ IdleRemediator
    /\ world_processes = <<Process("proc")>>
    /\ \E n \in 1..max_viruses, awake \in BOOLEAN :
         viruses = [i \in 1..n |->
                      [Virus(<<"virus", i>>, i # 3, 0) EXCEPT !.active = (i # 3 \/ awake)]]
    /\ pending_viruses = <<>>
    /\ clone_counter = 0
    /\ turn = 0
    /\ phase = "idle"
    /\ idx = 0
    /\ todo = 0
    /\ turn_events = <<>>
    /\ event_log = <<>>

NextWorld ==
    \/ WorldStepBegin
    \/ VirusSleeps
    \/ \E target \in 0..Len(world_processes), infected \in BOOLEAN, replicates \in BOOLEAN :
          VirusStep(target, infected, replicates)
    \/ ApplyPending
    \/ \E target \in 0..Len(viruses), hit \in BOOLEAN, repaired \in 0..Len(world_processes) :
          AgentStep(target, hit, repaired)
    \/ WorldStepEnd

SpecWorld == InitWorld /\ [][NextWorld]_vars

\* ------------------------------------------------------------------------
\* Claims about find_duplicates

\* the paths of the argument that hold the same content as p
SameContent(paths, p) == {q \in Range(paths) : disk[q].data = disk[p].data}

\* find_duplicates has returned, its argument held no path twice and every
\* stat and every read succeeded
ReturnedOnReadableDistinct ==
    /\ fd.returned
    /\ NoDuplicates(fd.paths)
    /\ fd.skipped = <<>>

\* C1: for distinct readable files, find_duplicates returns exactly one group
\* per content shared by at least two of them, holding all and only the paths
\* with that content; a file whose content no other file shares is in no group.
C1_GroupsAreContentClasses ==
    ReturnedOnReadableDistinct =>
        /\ \A i \in 1..Len(fd.result) :
             /\ fd.result[i].items # <<>>
             /\ Range(fd.result[i].items) =
                    SameContent(fd.paths, fd.result[i].items[1])
             /\ NoDuplicates(fd.result[i].items)
             /\ Cardinality(Range(fd.result[i].items)) >= 2
             /\ \A j \in 1..Len(fd.result) :
                  i # j => Range(fd.result[i].items) \cap Range(fd.result[j].items) = {}
        /\ \A p \in Range(fd.paths) :
             (\E i \in 1..Len(fd.result) : p \in Range(fd.result[i].items))
                <=> Cardinality(SameContent(fd.paths, p)) >= 2

\* two identical files and one differing file: one group of the two
C1_Witness ==
    /\ ReturnedOnReadableDistinct
    /\ Len(fd.paths) = 3
    /\ Len(fd.result) = 1
    /\ Range(fd.result[1].items) = {FileA, FileSetup}

\* C2 as stated: every group has at least two entries and never consists of
\* one single file, in what find_duplicates returns and in the duplicates
\* findings, whatever the enumeration (a path met twice included).
C2_NoFileIsItsOwnDuplicate ==
    /\ fd.returned =>
         \A i \in 1..Len(fd.result) :
            /\ Len(fd.result[i].items) >= 2
            /\ Cardinality(Range(fd.result[i].items)) >= 2
    /\ \A r \in 1..Len(heap) : \A k \in 1..Len(heap[r].findings) :
         "archivos" \in DOMAIN heap[r].findings[k].details =>
            /\ Len(heap[r].findings[k].details.archivos) >= 2
            /\ Cardinality(Range(heap[r].findings[k].details.archivos)) >= 2

\* ------------------------------------------------------------------------
\* Claims about per-item failures

Limitations(rid) == heap[rid].limitations

Findings(rid) == heap[rid].findings

\* the failures of report rid that the claim names: a file that cannot be
\* hashed, and in the duplicates scan a file whose size cannot be read
FailuresOf(rid) ==
    {k \in 1..Len(failures) :
        /\ failures[k].rid = rid
        /\ (failures[k].kind = "hash" \/ heap[rid].name = "busqueda_duplicados")}

IsFinished(rid) == heap[rid].finished_at # None

\* C3 as stated: in every scan mode a per-item failure (size unreadable, file
\* not hashable) is recorded as a limitation on that scan's report and never
\* aborts the scan.
C3_FailuresBecomeLimitations ==
    /\ pc # "aborted"
    /\ \A rid \in 1..Len(heap) :
         (IsFinished(rid) /\ ~IsUmbrella(rid)) =>
            Len(Limitations(rid)) >= Cardinality(FailuresOf(rid))

\* a scanner step of the scan_files loop on a file that cannot be read
HashErrorStep ==
    /\ pc = "sf_loop"
    /\ queue # <<>>
    /\ IsFile(disk, Head(queue))
    /\ ReadFails(disk, Head(queue))
    /\ queue' # queue

\* C4: in scan_files a file whose hashing fails adds exactly one limitation,
\* produces no finding, is counted in the scanned total, and the loop goes on
\* with the files that follow it.
C4_HashErrorIsSkipAndContinue ==
    [][HashErrorStep =>
         /\ Limitations(cur)' = Append(Limitations(cur), HashLimitation(Head(queue)))
         /\ Findings(cur)' = Findings(cur)
         /\ scanned' = scanned + 1
         /\ queue' = Tail(queue)
         /\ pc' = "sf_loop"]_vars

\* the first file could not be hashed, the two after it were reported
C4_Witness ==
    /\ op = "scan_files"
    /\ pc = "done"
    /\ result # 0
    /\ Limitations(result) = <<HashLimitation(FileA)>>
    /\ Len(Findings(result)) = 2
    /\ heap[result].summary.archivos_escaneados = 3

\* ------------------------------------------------------------------------
\* Claims about findings

\* C5: in scan_files (for a file that was hashed and that analyse_file has
\* evaluated) and in scan_processes, one finding is appended for an item
\* exactly when it has a signature match or a heuristic flag, and none
\* otherwise.
C5_FindingIffMatchOrFlag ==
    [][/\ (pc = "sf_analyse" /\ pc' = "sf_loop") =>
            LET flags == analyse_file(item.path, StatFails(disk, item.path),
                                      StatSize(disk, item.path))
            IN IF item.matches # <<>> \/ flags # <<>>
               THEN /\ Len(Findings(cur)') = Len(Findings(cur)) + 1
                    /\ SubSeq(Findings(cur)', 1, Len(Findings(cur))) = Findings(cur)
                    /\ Findings(cur)'[Len(Findings(cur)')].details.ruta = item.path
               ELSE Findings(cur)' = Findings(cur)
       /\ (pc = "sf_loop" /\ pc' = "sf_analyse") => Findings(cur)' = Findings(cur)
       /\ (pc = "sp_loop" /\ queue # <<>> /\ queue' # queue) =>
            LET process == Head(queue)
                flags == analyse_process(process)
                matches == find_matches(sigs, NoneStr, process.name)
            IN IF matches # <<>> \/ flags # <<>>
               THEN /\ Len(Findings(cur)') = Len(Findings(cur)) + 1
                    /\ SubSeq(Findings(cur)', 1, Len(Findings(cur))) = Findings(cur)
                    /\ Findings(cur)'[Len(Findings(cur)')].details.pid = process.pid
               ELSE Findings(cur)' = Findings(cur)]_vars

\* two processes scanned, one of them (heuristic flag only) reported
C5_Witness ==
    /\ op = "scan_processes"
    /\ pc = "done"
    /\ result # 0
    /\ heap[result].summary.procesos_escaneados = 2
    /\ Len(Findings(result)) = 1
    /\ Findings(result)[1].details.firmas = <<>>

IsDuplicatesFinding(f) == "archivos" \in DOMAIN f.details

\* C6: in every report a finding's risk is "high" exactly when a signature
\* match contributed (details.firmas not empty); with heuristic flags alone
\* it is "medium" whatever their severity; a duplicates finding is "low".
C6_RiskHighIffSignature ==
    \A rid \in 1..Len(heap) : \A k \in 1..Len(Findings(rid)) :
        LET f == Findings(rid)[k]
        IN IF IsDuplicatesFinding(f)
           THEN f.risk = "low"
           ELSE /\ f.risk = "high" <=> f.details.firmas # <<>>
                /\ f.details.firmas = <<>> =>
                     (f.risk = "medium" /\ f.details.heuristicas # <<>>)

\* a merged report with a high finding, a low one, and a medium one whose
\* only flag has severity high
C6_Witness ==
    /\ op = "full_scan"
    /\ pc = "done"
    /\ result = 1
    /\ \E k \in 1..Len(Findings(1)) : Findings(1)[k].risk = "high"
    /\ \E k \in 1..Len(Findings(1)) : Findings(1)[k].risk = "low"
    /\ \E k \in 1..Len(Findings(1)) :
         /\ Findings(1)[k].risk = "medium"
         /\ Findings(1)[k].details.heuristicas = <<"temp-process">>

\* ------------------------------------------------------------------------
\* Claims about full_scan

RECURSIVE LifecycleOf(_)
\* what happens to the reports rids, one after the other
LifecycleOf(rids) ==
    IF rids = <<>> THEN <<>>
    ELSE <<Event("create", Head(rids)), Event("finish", Head(rids)),
           Event("write", Head(rids)), Event("return", Head(rids))>>
         \o LifecycleOf(Tail(rids))

FullScanTrace ==
    <<Event("create", 1)>> \o LifecycleOf(<<2, 3, 4, 5>>)
    \o <<Event("finish", 1), Event("write", 1), Event("return", 1)>>

FullScanNames ==
    <<"escaneo_completo", "escaneo_archivos", "escaneo_procesos", "escaneo_gpu",
      "busqueda_duplicados">>

\* C7: full_scan runs the four sub-scans once each, in the order files,
\* processes, GPU processes, duplicates; each sub-report is finalized and
\* written before the next sub-scan starts, the umbrella report is written last.
C7_FullScanOrder ==
    op = "full_scan" =>
        /\ IsPrefix(trace, FullScanTrace)
        /\ Len(heap) <= Len(FullScanNames)
        /\ \A rid \in 1..Len(heap) : heap[rid].name = FullScanNames[rid]
        /\ Len(written) <= Len(heap)
        /\ result = 1 => (Len(written) = 5 /\ written[5].rid = 1)

C7_Witness ==
    /\ op = "full_scan"
    /\ pc = "done"
    /\ result = 1
    /\ trace = FullScanTrace

\* C8: the report full_scan returns holds the findings of the four sub-reports
\* one after the other in sub-scan order, their limitations likewise, their
\* names in reportes_incluidos, and hallazgos_totales counts its findings.
C8_UmbrellaIsMerge ==
    (op = "full_scan" /\ result = 1) =>
        /\ Findings(1) = Findings(2) \o Findings(3) \o Findings(4) \o Findings(5)
        /\ Limitations(1) =
             Limitations(2) \o Limitations(3) \o Limitations(4) \o Limitations(5)
        /\ heap[1].summary.reportes_incluidos =
             <<"escaneo_archivos", "escaneo_procesos", "escaneo_gpu",
               "busqueda_duplicados">>
        /\ heap[1].summary.hallazgos_totales = Len(Findings(1))

\* findings of three sub-scans and limitations of two of them are merged
C8_Witness ==
    /\ op = "full_scan"
    /\ pc = "done"
    /\ result = 1
    /\ Findings(2) # <<>> /\ Findings(3) # <<>> /\ Findings(5) # <<>>
    /\ Limitations(2) # <<>> /\ Limitations(4) # <<>>

\* ------------------------------------------------------------------------
\* Claims about every report

\* C9 as stated: every report returned by one of the five operations has
\* summary.sospechosos, equal to the number of its findings.
C9_EverySummaryHasSospechosos ==
    result # 0 =>
        /\ "sospechosos" \in DOMAIN heap[result].summary
        /\ heap[result].summary.sospechosos = Len(Findings(result))

\* the summary counter of the items scanned is there
HasScannedCounter(report) ==
    \E key \in {"archivos_escaneados", "procesos_escaneados", "procesos_gpu_detectados"} :
        key \in DOMAIN report.summary /\ report.summary[key] \in Nat

\* C9 amended: the reports of scan_files, scan_processes and scan_gpu_processes
\* carry a counter of the items scanned and sospechosos, equal to the number of
\* findings; the report of scan_duplicates carries grupos and that of full_scan
\* hallazgos_totales, each equal to the number of findings, and neither has
\* sospechosos.
C9_SummaryCountsFindings ==
    \A rid \in 1..Len(heap) :
        IsFinished(rid) =>
            CASE heap[rid].name = "busqueda_duplicados" ->
                   /\ DOMAIN heap[rid].summary = {"grupos", "espacio_recuperable"}
                   /\ heap[rid].summary.grupos = Len(Findings(rid))
              [] heap[rid].name = UmbrellaName ->
                   /\ DOMAIN heap[rid].summary = {"reportes_incluidos", "hallazgos_totales"}
                   /\ heap[rid].summary.hallazgos_totales = Len(Findings(rid))
              [] OTHER ->
                   /\ HasScannedCounter(heap[rid])
                   /\ heap[rid].summary.sospechosos = Len(Findings(rid))

\* scan_files returned the report of one clean file: no finding, sospechosos 0
C9_Witness ==
    /\ op = "scan_files"
    /\ pc = "done"
    /\ result # 0
    /\ Findings(result) = <<>>
    /\ Limitations(result) = <<>>
    /\ heap[result].summary.archivos_escaneados = 1
    /\ heap[result].summary.sospechosos = 0

\* the events of the trace that concern report rid
RECURSIVE EventsOf(_, _)
EventsOf(tr, rid) ==
    IF tr = <<>> THEN <<>>
    ELSE (IF Head(tr).rid = rid THEN <<Head(tr).kind>> ELSE <<>>)
         \o EventsOf(Tail(tr), rid)

\* C10: every report is created, changed, finalized, written and returned in
\* that order: finished_at is set once, after the last change of findings,
\* limitations and summary; the report is written after that and never
\* changed afterwards; the report returned is the one written last.
C10_Lifecycle ==
    /\ [](/\ \A rid \in 1..Len(heap) :
               IsPrefix(EventsOf(trace, rid), <<"create", "finish", "write", "return">>)
          /\ \A k \in 1..Len(written) :
               /\ written[k].content = heap[written[k].rid]
               /\ written[k].content.finished_at # None
          /\ result # 0 => written[Len(written)].rid = result)
    /\ [][pc # "done" =>
            \A rid \in 1..Len(heap) :
                IsFinished(rid) => (rid <= Len(heap') /\ heap'[rid] = heap[rid])]_vars

C10_Witness ==
    /\ op = "full_scan"
    /\ pc = "done"
    /\ result = 1
    /\ Len(written) = 5
    /\ Findings(1) # <<>>
    /\ \A k \in 1..5 : written[k].content = heap[written[k].rid]

\* ------------------------------------------------------------------------
\* Claims about the duplicates scan

\* the reclaimable space of one duplicates finding
SpaceOf(f) == f.details.tamano * (Len(f.details.archivos) - 1)

\* C11: a finished duplicates report has one finding per group returned by
\* find_duplicates, in the same order; summary.grupos is the number of groups
\* and summary.espacio_recuperable the sum over the groups of the size of a
\* member times the number of members less one.
C11_ReclaimableSpace ==
    \A rid \in 1..Len(heap) :
        (IsFinished(rid) /\ heap[rid].name = "busqueda_duplicados") =>
            /\ heap[rid].summary.grupos = Len(fd.result)
            /\ Len(Findings(rid)) = Len(fd.result)
            /\ \A k \in 1..Len(fd.result) :
                 /\ Findings(rid)[k].details.archivos = fd.result[k].items
                 /\ Findings(rid)[k].title = <<"Duplicados hash", fd.result[k].key>>
                 /\ \A m \in Range(fd.result[k].items) :
                      Findings(rid)[k].details.tamano = Size(disk[m].data)
                 /\ \A j \in 1..Len(fd.result) :
                      j # k => fd.result[j].key # fd.result[k].key
            /\ heap[rid].summary.espacio_recuperable =
                   SeqSum([k \in 1..Len(Findings(rid)) |-> SpaceOf(Findings(rid)[k])])

\* two files holding "hello" and one differing file: one group, and the
\* estimate is the size of "hello" once
C11_Witness ==
    /\ op = "scan_duplicates"
    /\ pc = "done"
    /\ result # 0
    /\ Len(fd.paths) = 3
    /\ disk[FileA].data = "hello" /\ disk[FileSetup].data = "hello"
    /\ disk[FileExe].data # "hello"
    /\ heap[result].summary.grupos = 1
    /\ Findings(result)[1].details.archivos = <<FileA, FileSetup>>
    /\ heap[result].summary.espacio_recuperable = Size("hello") * 1

\* the report that find_duplicates works for, 0 when it was called on its own
DuplicatesRid ==
    IF \E r \in 1..Len(heap) : heap[r].name = "busqueda_duplicados"
    THEN CHOOSE r \in 1..Len(heap) : heap[r].name = "busqueda_duplicados"
    ELSE 0

\* the paths whose hashing failed inside find_duplicates
HashFailed ==
    {failures[k].path : k \in {n \in 1..Len(failures) :
        failures[n].rid = DuplicatesRid /\ failures[n].kind = "hash"}}

InSomeGroup(groups, p) == \E i \in 1..Len(groups) : p \in Range(groups[i].items)

\* C12: find_duplicates was given distinct paths.  A file whose hashing failed
\* is in no returned group; the other members of its size group were hashed
\* and bucketed; find_duplicates returned; and the groups returned are the
\* content classes of two or more among the files that were not left out.
C12_HashFailureExcludesFile ==
    /\ (fd.returned /\ NoDuplicates(fd.paths)) =>
         LET remaining == SelectSeq(fd.paths, LAMBDA q : q \notin Range(fd.skipped))
         IN /\ \A p \in HashFailed : ~InSomeGroup(fd.result, p)
            /\ \A p \in Range(HashWorklist(fd.size_map)) \ HashFailed :
                 InSomeGroup(fd.buckets, p)
            /\ \A i \in 1..Len(fd.result) :
                 /\ Range(fd.result[i].items) =
                        SameContent(remaining, fd.result[i].items[1])
                 /\ Cardinality(Range(fd.result[i].items)) >= 2
            /\ \A p \in Range(remaining) :
                 InSomeGroup(fd.result, p)
                    <=> Cardinality(SameContent(remaining, p)) >= 2
    /\ (pc = "fd_hash" /\ queue = <<>>) => ENABLED DupReturn

\* three files of one content, one of them unreadable: the group of the
\* other two is returned
C12_Witness ==
    /\ fd.returned
    /\ NoDuplicates(fd.paths)
    /\ Len(fd.paths) = 3
    /\ Cardinality(HashFailed) = 1
    /\ Len(fd.result) = 1
    /\ Len(fd.result[1].items) = 2

Occurrences(seq, x) == Cardinality({i \in 1..Len(seq) : seq[i] = x})

\* how often the stat of p failed in group_paths_by_size
StatSkips(p) ==
    Cardinality({k \in 1..Len(failures) :
        failures[k].rid = cur /\ failures[k].kind = "stat" /\ failures[k].path = p})

\* C13: when group_paths_by_size has returned, the groups have distinct
\* sizes as keys, every path in a group has the size that keys the group, and
\* every entry of the input is in one group, unless its stat failed: then it
\* is in none, and the entries after it were grouped all the same.
C13_SizeGroupsPartitionInput ==
    pc = "fd_hash" =>
        /\ \A i, j \in 1..Len(fd.size_map) :
             i # j => fd.size_map[i].key # fd.size_map[j].key
        /\ \A i \in 1..Len(fd.size_map) :
             /\ fd.size_map[i].items # <<>>
             /\ \A p \in Range(fd.size_map[i].items) :
                  fd.size_map[i].key = Size(disk[p].data)
        /\ \A p \in Names :
             SeqSum([i \in 1..Len(fd.size_map) |-> Occurrences(fd.size_map[i].items, p)])
                + StatSkips(p) = Occurrences(fd.paths, p)

\* one file of three could not be sized, the two after it share a group
C13_Witness ==
    /\ pc = "fd_hash"
    /\ Len(fd.paths) = 3
    /\ StatSkips(fd.paths[1]) = 1
    /\ \E i \in 1..Len(fd.size_map) : fd.size_map[i].items = Tail(fd.paths)

\* ------------------------------------------------------------------------
\* Claims about failures inside the file evaluator

\* C18 as stated: a failure of path.stat() inside analyse_file does not
\* propagate: scan_files goes on to the next file, and the finding of the file
\* rests on its signature matches and on the flags that need no size.
C18_MetadataErrorIsCaught ==
    [][(pc = "sf_analyse" /\ pc' # pc) =>
         /\ pc' = "sf_loop"
         /\ (StatFails(disk, item.path) \/ StatRaises(disk, item.path)) =>
              LET flagged == Lower(Suffix(item.path)) \in SUSPICIOUS_EXTENSIONS
              IN IF item.matches # <<>> \/ flagged
                 THEN /\ Len(Findings(cur)') = Len(Findings(cur)) + 1
                      /\ Findings(cur)'[Len(Findings(cur)')].details.heuristicas =
                            IF flagged THEN <<"suspicious-extension">> ELSE <<>>
                 ELSE Findings(cur)' = Findings(cur)]_vars

\* ------------------------------------------------------------------------
\* Claims about the signature store

\* what the store promises for one signature: the digest is given and is the
\* digest of the signature, or the name is given and its last component
\* matches one of the patterns of the signature
ShouldMatch(sig, sha, filename) ==
    \/ sha # <<>> /\ sha = sig.sha256
    \/ /\ filename # <<>>
       /\ \E k \in 1..Len(sig.filename_patterns) :
            GlobMatch(Basename(filename), sig.filename_patterns[k])

\* C14: find_matches returns exactly the stored signatures that the digest or
\* the file name selects, each once and in the order of the store; with both
\* criteria absent or empty, or when nothing matches, the list is empty; it
\* does not raise.
C14_FindMatchesIsExact ==
    call.fn = "find_matches" =>
        LET sha == call.args.sha256
            filename == call.args.filename
            out == call.out.value
        IN /\ ~call.out.raised
           /\ NoDuplicates(out)
           /\ Range(out) = {sig \in Range(sigs) : ShouldMatch(sig, sha, filename)}
           /\ \A i, j \in 1..Len(out) :
                i < j => \E m, n \in 1..Len(sigs) :
                            m < n /\ sigs[m] = out[i] /\ sigs[n] = out[j]
           /\ (sha = <<>> /\ filename = <<>>) => out = <<>>

\* a.txt holding "world": one signature selected by digest and by pattern,
\* another by two of its patterns, each returned once
C14_Witness ==
    /\ call.fn = "find_matches"
    /\ call.args.sha256 = Digest("world")
    /\ call.args.filename = FileA
    /\ Len(call.out.value) = 2
    /\ Range(call.out.value) = {SigHelloWorld, SigText}

\* the store after add_signature(sig), against the store before it
Upserted(old, sig, new) ==
    /\ Cardinality({i \in 1..Len(new) : new[i].identifier = sig.identifier}) = 1
    /\ \E i \in 1..Len(new) : new[i] = sig
    /\ {new[i] : i \in {n \in 1..Len(new) : new[n].identifier # sig.identifier}} =
       {old[i] : i \in {n \in 1..Len(old) : old[n].identifier # sig.identifier}}
    /\ add_signature(new, sig) = new

\* C15: the store never holds two signatures of one identifier; an add puts
\* the signature in the place of the one with its identifier, or adds it when
\* there is none, leaves every other signature as it was, and adding the
\* same signature again changes nothing.
C15_AddSignatureUpserts ==
    /\ [](\A i, j \in 1..Len(sigs) :
             i # j => sigs[i].identifier # sigs[j].identifier)
    /\ [][call'.fn = "add_signature" => Upserted(sigs, call'.args, sigs')]_vars

\* a bundled signature replaced in its place while two added ones are kept
C15_Witness ==
    /\ call.fn = "add_signature"
    /\ call.args = SigBatchWide
    /\ Len(sigs) = 4
    /\ sigs[1] = default_signatures[1]
    /\ sigs[2] = SigBatchWide
    /\ sigs[3] = SigHelloWorld

\* ------------------------------------------------------------------------
\* Claims about the heuristics

\* the severity under which each flag is reported
SeverityOf(id) ==
    CASE id = "suspicious-extension" -> "medium"
      [] id = "large-binary" -> "low"
      [] id = "temp-process" -> "high"
      [] id = "auto-start" -> "medium"
      [] id = "tilde-prefixed" -> "medium"

\* the flags of the list come in the order of order, each once, with their
\* severity, and they are the flags of the set expected
FlagsAre(out, order, expected) ==
    /\ Identifiers(out) = SelectSeq(order, LAMBDA id : id \in expected)
    /\ \A k \in 1..Len(out) : out[k].severity = SeverityOf(out[k].identifier)

\* C16: when the size of the file can be read, analyse_file flags
\* suspicious-extension (medium) exactly when the lower-cased extension is one
\* of .exe .dll .bat .scr .js .vbs, and large-binary (low) exactly when the
\* extension is .exe or .dll and the size is above 52428800 bytes; each flag
\* is decided on its own.
C16_FileFlags ==
    (call.fn = "analyse_file" /\ call.args.stat = "ok") =>
        LET ext == Lower(Suffix(call.args.path))
            denylisted ==
                ext \in { <<".", "e", "x", "e">>, <<".", "d", "l", "l">>,
                          <<".", "b", "a", "t">>, <<".", "s", "c", "r">>,
                          <<".", "j", "s">>, <<".", "v", "b", "s">> }
            large == /\ ext \in {<<".", "e", "x", "e">>, <<".", "d", "l", "l">>}
                     /\ call.args.size > 52428800
        IN /\ ~call.out.raised
           /\ FlagsAre(call.out.value, <<"suspicious-extension", "large-binary">>,
                       (IF denylisted THEN {"suspicious-extension"} ELSE {})
                       \cup (IF large THEN {"large-binary"} ELSE {}))

\* an executable of 60 MiB, its extension in capitals: both flags
C16_Witness ==
    /\ call.fn = "analyse_file"
    /\ call.args.stat = "ok"
    /\ call.args.path = FileExe
    /\ call.args.size = 60 * 1024 * 1024
    /\ Identifiers(call.out.value) = <<"suspicious-extension", "large-binary">>

\* C17: analyse_process flags temp-process (high) exactly when the name ends
\* with .tmp, auto-start (medium) exactly when the startup flag is set, and
\* tilde-prefixed (medium) exactly when the last component of the executable
\* path starts with "~$"; for every combination the result holds exactly the
\* flags whose condition holds, each once.
C17_ProcessFlags ==
    call.fn = "analyse_process" =>
        LET name == call.args.name
            base == Basename(call.args.exe)
            temp == /\ Len(name) >= 4
                    /\ Lower(SubSeq(name, Len(name) - 3, Len(name))) =
                          <<".", "t", "m", "p">>
            tilde == Len(base) >= 2 /\ base[1] = "~" /\ base[2] = "$"
        IN /\ ~call.out.raised
           /\ FlagsAre(call.out.value, <<"temp-process", "auto-start", "tilde-prefixed">>,
                       (IF temp THEN {"temp-process"} ELSE {})
                       \cup (IF call.args.startup THEN {"auto-start"} ELSE {})
                       \cup (IF tilde THEN {"tilde-prefixed"} ELSE {}))

\* the three conditions at once: the three flags
C17_Witness ==
    /\ call.fn = "analyse_process"
    /\ call.args.name = <<"x", ".", "T", "M", "P">>
    /\ call.args.startup
    /\ call.args.exe = <<"/", "b", "/", "~", "$", "u">>
    /\ Identifiers(call.out.value) = <<"temp-process", "auto-start", "tilde-prefixed">>

\* ------------------------------------------------------------------------
\* Claims about the streaming digest

\* C19: for every file and every block size above 0 the reader yields chunks
\* that are not empty and not longer than block_size, whose concatenation in
\* order is the content of the file; the digest is the SHA-256 of the content,
\* whatever the block size and however often it is computed.
C19_StreamingDigest ==
    call.fn = "compute_sha256" =>
        LET content == call.args.content
            chunks == call.out.value.chunks
        IN /\ ~call.out.raised
           /\ \A k \in 1..Len(chunks) :
                chunks[k] # <<>> /\ Len(chunks[k]) <= call.args.block_size
           /\ Flatten(chunks) = content
           /\ call.out.value.digest = Digest(content)
           /\ \A b \in 1..MaxBlockSize :
                Sha256Stream(content, b) = call.out.value.digest

\* three bytes read two at a time: a full chunk, then the last byte
C19_Witness ==
    /\ call.fn = "compute_sha256"
    /\ call.args.content = <<"x", "y", "x">>
    /\ call.args.block_size = 2
    /\ call.out.value.chunks = << <<"x", "y">>, <<"x">> >>

\* ------------------------------------------------------------------------
\* Claims about the report file

\* a value that JSON has a form of its own for: None, an integer, a string, a
\* list of such values, a dictionary of such values under string keys
RECURSIVE IsJsonValue(_)
IsJsonValue(value) ==
    CASE value.t \in {"none", "int", "str"} -> TRUE
      [] value.t = "list" -> \A i \in 1..Len(value.v) : IsJsonValue(value.v[i])
      [] value.t = "dict" ->
           \A i \in 1..Len(value.v) :
              value.v[i].k.t = "str" /\ IsJsonValue(value.v[i].val)
      [] OTHER -> FALSE

\* parsed[key]
Item(parsed, key) ==
    (CHOOSE m \in Range(parsed.v) : m.k = PyStr(key)).val

\* C20: a report whose summary and details hold JSON values, written as JSON
\* and parsed back, gives its name and its summary as they were, and its
\* findings in the same number and order, each with its title, details, risk
\* and recommendations.
C20_JsonRoundTrip ==
    (/\ call.fn = "write"
     /\ IsJsonValue(call.args.summary)
     /\ \A k \in 1..Len(call.args.findings) : IsJsonValue(call.args.findings[k].details))
    =>
        LET report == call.args
            parsed == call.out.value.parsed
            findings == Item(parsed, "findings").v
        IN /\ ~call.out.raised
           /\ Item(parsed, "name") = PyStr(report.name)
           /\ Item(parsed, "summary") = report.summary
           /\ Len(findings) = Len(report.findings)
           /\ \A k \in 1..Len(findings) :
                /\ Item(findings[k], "title") = PyStr(report.findings[k].title)
                /\ Item(findings[k], "details") = report.findings[k].details
                /\ Item(findings[k], "risk") = PyStr(report.findings[k].risk)
                /\ Item(findings[k], "recommendations") =
                      PyStrings(report.findings[k].recommendations)

\* a report with a nested summary and two different findings, read back
C20_Witness ==
    /\ call.fn = "write"
    /\ call.args.name = "Mi Reporte"
    /\ IsJsonValue(call.args.summary)
    /\ Len(call.args.summary.v) = 2
    /\ Len(call.args.findings) = 2
    /\ call.args.findings[1].risk = "low"
    /\ call.args.findings[2].risk = "high"
    /\ Len(Item(call.out.value.parsed, "findings").v) = 2

\* ------------------------------------------------------------------------
\* Claims about the report writer

\* C21: within one run of the program no write targets a path that an earlier
\* write has written, so no report file is overwritten.
C21_WritesNeverOverwrite ==
    \A i, j \in 1..Len(written) :
        i < j => written[i].path # written[j].path

\* ------------------------------------------------------------------------
\* Claims about the order inside a group of duplicates

\* s can be had from t by leaving entries out
RECURSIVE IsSubsequence(_, _)
IsSubsequence(s, t) ==
    IF s = <<>> THEN TRUE
    ELSE IF t = <<>> THEN FALSE
    ELSE IF Head(s) = Head(t) THEN IsSubsequence(Tail(s), Tail(t))
    ELSE IsSubsequence(s, Tail(t))

\* C22: the paths of every group find_duplicates returns are in the order of
\* the input enumeration, and every duplicates finding lists in
\* details.archivos the paths of its group in that same order.
C22_GroupsKeepInputOrder ==
    /\ fd.returned =>
         \A i \in 1..Len(fd.result) : IsSubsequence(fd.result[i].items, fd.paths)
    /\ \A r \in 1..Len(heap) :
         heap[r].name = "busqueda_duplicados" =>
            \A k \in 1..Len(heap[r].findings) :
               /\ fd.returned
               /\ k <= Len(fd.result)
               /\ heap[r].findings[k].details.archivos = fd.result[k].items

\* a finding for two copies that another file stands between in the listing
C22_Witness ==
    /\ fd.returned
    /\ fd.paths = <<FileA, FileExe, FileSetup>>
    /\ \E r \in 1..Len(heap) :
         /\ heap[r].name = "busqueda_duplicados"
         /\ Len(heap[r].findings) = 1
         /\ heap[r].findings[1].details.archivos = <<FileA, FileSetup>>

\* ------------------------------------------------------------------------
\* Claims about the GPU scan

\* C23: a GPU scan that gets no processes, as it does when the inspection
\* tool is absent or cannot be executed, does not end with an exception, and
\* its finalized report has no findings, procesos_gpu_detectados = 0,
\* sospechosos = 0 and exactly one limitation.
C23_GpuToolFailureNotFatal ==
    (cur # 0 /\ heap[cur].name = "escaneo_gpu" /\ scanned = 0) =>
        /\ pc # "aborted"
        /\ IsFinished(cur) =>
             /\ heap[cur].findings = <<>>
             /\ heap[cur].summary.procesos_gpu_detectados = 0
             /\ heap[cur].summary.sospechosos = 0
             /\ Len(heap[cur].limitations) = 1

\* ------------------------------------------------------------------------
\* Claims about the Remediator

RemediatorMethods == {"quarantine", "delete", "restore"}

\* the file a call works on
SourceOf(c) ==
    IF c.fn = "restore" THEN Join(quarantine_dir, c.args.filename) ELSE c.args.path

\* C24: each call of quarantine, delete or restore returns without an
\* exception and appends exactly one entry, whose action is the method and
\* whose status is failed when the source does not exist or the move or
\* removal fails, simulated when the source exists and dry_run is on, and
\* success otherwise.
C24_EveryCallLogsOneEntry ==
    [][call'.fn \in RemediatorMethods =>
         /\ ~call'.out.raised
         /\ Len(log') = Len(log) + 1
         /\ SubSeq(log', 1, Len(log)) = log
         /\ log'[Len(log')].action = call'.fn
         /\ log'[Len(log')].status =
               IF ~Exists(files, SourceOf(call'))
                  \/ (~dry_run /\ call'.args.outcome # "ok")
               THEN "failed"
               ELSE IF dry_run THEN "simulated" ELSE "success"]_vars

\* C29: with dry_run off and nothing but quarantine calls made, every file
\* whose quarantine was logged as success is in the quarantine directory at
\* the destination its entry names, with the content it had.
C29_QuarantineKeepsHeldFiles ==
    (~dry_run /\ \A k \in 1..Len(log) : log[k].action = "quarantine") =>
        \A k \in 1..Len(log) :
            log[k].status = "success" =>
                /\ Exists(files, log[k].details[2])
                /\ files[log[k].details[2]].content = SourceContent(log[k].target)

Present(c) == SelectSeq(Candidates(c.args.custom_path),
                        LAMBDA p : c.args.state[p] # "missing")

C26_MissingCustomFileRaises ==
    (/\ call.fn = "load_config"
     /\ call.args.custom_path # <<>>
     /\ call.args.state[call.args.custom_path[1]] = "missing")
    => (call.out.raised /\ call.out.value = "FileNotFoundError")

\* ------------------------------------------------------------------------
\* Claims about the simulated World

\* the turn in which the virus of that name was made
CreatedIn(name) ==
    (CHOOSE v \in Range(viruses \o pending_viruses) : v.name = name).created

\* C27: the viruses of the world and the scheduled ones together never
\* exceed max_viruses; schedule_new_virus refuses, and queues nothing,
\* exactly when they have reached max_viruses, and queues the clone
\* otherwise; clones_created of a virus goes up by one when its clone was
\* accepted and changes in no other step.
C27_VirusCapHolds ==
    /\ [](Len(viruses) + Len(pending_viruses) <= max_viruses)
    /\ [][/\ call'.fn = "schedule_new_virus" =>
               /\ call'.out.value <=> Len(viruses) + Len(pending_viruses) < max_viruses
               /\ pending_viruses' = IF call'.out.value
                                     THEN Append(pending_viruses, call'.args)
                                     ELSE pending_viruses
               /\ viruses'[idx].clones_created =
                     viruses[idx].clones_created + (IF call'.out.value THEN 1 ELSE 0)
          /\ \A i \in 1..Len(viruses) :
               viruses'[i].clones_created # viruses[i].clones_created =>
                  (call'.fn = "schedule_new_virus" /\ call'.out.value /\ i = idx)]_vars

\* a clone was refused at the cap, after an earlier one had been accepted
C27_Witness ==
    /\ call.fn = "schedule_new_virus"
    /\ ~call.out.value
    /\ Len(viruses) + Len(pending_viruses) = max_viruses
    /\ \E i \in 1..Len(viruses) : viruses[i].clones_created > 0

\* C28: while the World.step call in which a virus was scheduled has not
\* returned, the virus is not in world.viruses, has taken no action and has
\* not been scanned by an antivirus agent.
C28_ClonesJoinAfterTheTurn ==
    phase # "idle" =>
        /\ \A i \in 1..Len(viruses) : viruses[i].created # turn
        /\ \A k \in 1..Len(turn_events) :
             /\ turn_events[k].verb \in {"compromised", "failed", "replicated"}
                   => CreatedIn(turn_events[k].actor) # turn
             /\ turn_events[k].verb \in {"neutralized", "missed"}
                   => CreatedIn(turn_events[k].target) # turn

====
